---- MODULE Spec2Model ----
(***************************************************************************)
(* A model of the math_engine crate: vectors, square matrices, the affine  *)
(* transform and the quaternion, with each library function translated     *)
(* from its Rust source.  An f32 is modelled by an integer; every input is *)
(* a small integer and every division is by +1 or -1, so that the f32      *)
(* arithmetic of the crate is exact on the values the model uses.          *)
(*                                                                         *)
(* The library is pure and single threaded.  The state machine is a client *)
(* that calls one library function on arguments drawn from bounded sets    *)
(* (pc = "idle" -> "done"), keeps the arguments and the value returned,    *)
(* and then returns to idle.                                               *)
(***************************************************************************)
EXTENDS Integers, Sequences, FiniteSets, TLC

VARIABLES pc, op, args, out

vars == <<pc, op, args, out>>

(***************************************************************************)
(* Bounds of the model.                                                    *)
(***************************************************************************)
\* Entries of a single Matrix2 argument range over -MaxVal..MaxVal.
MaxVal == 4
\* Entries of vectors, and of matrices that come in pairs or are 3x3 / 4x4.
MaxSmall == 1
\* Row and column indices passed to the index operators range over 0..MaxIndex.
MaxIndex == 5
\* Components of a unit quaternion are numerators over Den, in -Den..Den.
Den == 6

Vals == (0 - MaxVal)..MaxVal
SmallVals == (0 - MaxSmall)..MaxSmall

\* 1.0 / d, for the divisors whose reciprocal is an exact integer.
ExactDivisor(d) == d = 1 \/ d = 0 - 1
Recip(d) == CHOOSE r \in {0 - 1, 1} : r * d = 1

(***************************************************************************)
(* Vector2 (vector2.rs)                                                    *)
(***************************************************************************)
Vector2New(x, y) == [x |-> x, y |-> y]

\* impl Index<usize> for Vector2
Vector2Index(v, i) == IF i = 0 THEN v.x ELSE v.y

\* impl IndexMut<usize> for Vector2, followed by the assignment of val
Vector2IndexMut(v, i, val) == IF i = 0 THEN [v EXCEPT !.x = val] ELSE [v EXCEPT !.y = val]

(***************************************************************************)
(* Matrix2 (matrix2.rs): the field n, an array of two column vectors.      *)
(***************************************************************************)
Array2(a, b) == [i \in 0..1 |-> IF i = 0 THEN a ELSE b]

Matrix2New(n00, n01, n10, n11) ==
    Array2(Vector2New(n00, n10), Vector2New(n01, n11))

\* self.n[c][r]
N2(m, c, r) == Vector2Index(m[c], r)

\* impl Index<usize> for Matrix2: the column col
Matrix2IndexCol(m, col) == m[col]

Matrix2VecAt(m, i) == Matrix2IndexCol(m, i)

Matrix2At(m, i, j) == Vector2Index(Matrix2IndexCol(m, j), i)

\* impl Index<(usize, usize)> for Matrix2, under its assertion
Matrix2IndexOk(row, col) == col < 2 /\ row < 2
Matrix2Index(m, row, col) == Vector2Index(m[col], row)

\* self[col][row] = val
Matrix2Assign(m, col, row, val) == [m EXCEPT ![col] = Vector2IndexMut(@, row, val)]

Matrix2Set(self, n00, n01, n10, n11) ==
    LET s1 == Matrix2Assign(self, 0, 0, n00)
        s2 == Matrix2Assign(s1, 1, 0, n01)
        s3 == Matrix2Assign(s2, 0, 1, n10)
    IN  Matrix2Assign(s3, 1, 1, n11)

\* determinant with the sign of the second product wrong
Matrix2DeterminantPlus(m) == N2(m, 0, 0) * N2(m, 1, 1) + N2(m, 1, 0) * N2(m, 0, 1)

Matrix2Determinant(m) == N2(m, 0, 0) * N2(m, 1, 1) - N2(m, 1, 0) * N2(m, 0, 1)

Matrix2Inverse(m) ==
    LET inv == Recip(Matrix2Determinant(m))
    IN  Matrix2New(N2(m, 1, 1) * inv,
                   (0 - N2(m, 1, 0)) * inv,
                   (0 - N2(m, 0, 1)) * inv,
                   N2(m, 0, 0) * inv)

Matrix2Transpose(m) == Matrix2New(N2(m, 0, 0), N2(m, 0, 1), N2(m, 1, 0), N2(m, 1, 1))

Matrix2Identity == Matrix2New(1, 0, 0, 1)

\* #[derive(Default)]
Matrix2Default == Array2(Vector2New(0, 0), Vector2New(0, 0))

\* impl Mul<Matrix2> for Matrix2
Matrix2Mul(self, other) ==
    Matrix2New(
        N2(self, 0, 0) * Matrix2Index(other, 0, 0) + N2(self, 0, 1) * Matrix2Index(other, 1, 0),
        N2(self, 0, 0) * Matrix2Index(other, 0, 1) + N2(self, 0, 1) * Matrix2Index(other, 1, 1),
        N2(self, 1, 0) * Matrix2Index(other, 0, 0) + N2(self, 1, 1) * Matrix2Index(other, 1, 0),
        N2(self, 1, 0) * Matrix2Index(other, 0, 1) + N2(self, 0, 1) * Matrix2Index(other, 1, 1))

\* impl MulAssign<Matrix2> for Matrix2: sK is the value the K-th assignment of the
\* source computes, from the values the earlier ones have left
Matrix2MulAssign(self, other) ==
    LET s1 == N2(self, 0, 0) * (Matrix2Index(other, 0, 0) + N2(self, 0, 1) * Matrix2Index(other, 1, 0))
        s2 == N2(self, 1, 0) * (Matrix2Index(other, 0, 1) + N2(self, 0, 1) * Matrix2Index(other, 1, 1))
        s3 == N2(self, 0, 1) * (Matrix2Index(other, 0, 0) + N2(self, 1, 1) * Matrix2Index(other, 1, 0))
        s4 == N2(self, 1, 1) * (Matrix2Index(other, 0, 1) + s3 * Matrix2Index(other, 1, 1))
    IN  LET a1 == Matrix2Assign(self, 0, 0, s1)
            a2 == Matrix2Assign(a1, 1, 0, s2)
            a3 == Matrix2Assign(a2, 0, 1, s3)
            a4 == Matrix2Assign(a3, 1, 1, s4)
        IN  a4

(***************************************************************************)
(* Vector3 (vector3.rs) and Point3 (point3.rs)                             *)
(***************************************************************************)
Vector3New(x, y, z) == [x |-> x, y |-> y, z |-> z]

Point3New(x, y, z) == [x |-> x, y |-> y, z |-> z]

\* impl Index<usize> for Vector3
Vector3Index(v, i) == IF i = 0 THEN v.x ELSE IF i = 1 THEN v.y ELSE v.z

\* impl IndexMut<usize> for Vector3, followed by the assignment of val
Vector3IndexMut(v, i, val) ==
    IF i = 0 THEN [v EXCEPT !.x = val]
    ELSE IF i = 1 THEN [v EXCEPT !.y = val]
    ELSE [v EXCEPT !.z = val]

Vector3Dot(self, other) == self.x * other.x + self.y * other.y + self.z * other.z

Vector3Cross(self, other) ==
    Vector3New(self.y * other.z - self.z * other.y,
               self.z * other.x - self.x * other.z,
               self.x * other.y - self.y * other.z)

\* impl Add, Sub, Mul<f32> for Vector3
Vector3Add(self, other) == Vector3New(self.x + other.x, self.y + other.y, self.z + other.z)
Vector3Sub(self, other) == Vector3New(self.x - other.x, self.y - other.y, self.z - other.z)
Vector3MulScalar(self, other) == Vector3New(self.x * other, self.y * other, self.z * other)

(***************************************************************************)
(* Matrix3 (matrix3.rs): the field n, an array of three column vectors.    *)
(***************************************************************************)
Array3(a, b, c) == [i \in 0..2 |-> IF i = 0 THEN a ELSE IF i = 1 THEN b ELSE c]

\* new storing its arguments as if they were given column by column
Matrix3NewSwapped(a, b, c, d, e, f, g, h, i) ==
    Array3(Vector3New(a, b, c), Vector3New(d, e, f), Vector3New(g, h, i))

Matrix3New(a, b, c, d, e, f, g, h, i) ==
    Array3(Vector3New(a, d, g), Vector3New(b, e, h), Vector3New(c, f, i))

\* self.n[c][r]
N3(m, c, r) == Vector3Index(m[c], r)

\* impl Index<usize> for Matrix3: the column col
Matrix3IndexCol(m, col) == m[col]

Matrix3VecAt(m, index) == Matrix3IndexCol(m, index)

Matrix3At(m, i, j) == Vector3Index(Matrix3IndexCol(m, j), i)

\* impl Index<(usize, usize)> for Matrix3, under its assertion
Matrix3IndexOk(row, col) == col < 3 /\ row < 3
Matrix3Index(m, row, col) == Vector3Index(m[col], row)

\* self[col][row] = val
Matrix3Assign(m, col, row, val) == [m EXCEPT ![col] = Vector3IndexMut(@, row, val)]

Matrix3Set(self, n00, n01, n02, n10, n11, n12, n20, n21, n22) ==
    LET s1 == Matrix3Assign(self, 0, 0, n00)
        s2 == Matrix3Assign(s1, 1, 0, n01)
        s3 == Matrix3Assign(s2, 2, 0, n02)
        s4 == Matrix3Assign(s3, 0, 1, n10)
        s5 == Matrix3Assign(s4, 1, 1, n11)
        s6 == Matrix3Assign(s5, 2, 1, n12)
        s7 == Matrix3Assign(s6, 0, 2, n20)
        s8 == Matrix3Assign(s7, 1, 2, n21)
    IN  Matrix3Assign(s8, 2, 2, n22)

Matrix3Determinant(m) ==
    (N3(m, 0, 0) * N3(m, 1, 1) * N3(m, 2, 2) - N3(m, 2, 1) * N3(m, 1, 2))
        - N3(m, 1, 0) * (N3(m, 0, 1) * N3(m, 2, 2) - N3(m, 2, 1) * N3(m, 2, 0))
        + N3(m, 0, 2) * (N3(m, 0, 1) * N3(m, 1, 2) - N3(m, 1, 1) * N3(m, 0, 2))

\* the divisor of Matrix3::inverse: r2.dot(&c)
Matrix3InverseDivisor(m) == Vector3Dot(Vector3Cross(m[0], m[1]), m[2])

Matrix3Inverse(m) ==
    LET a == Matrix3IndexCol(m, 0)
        b == Matrix3IndexCol(m, 1)
        c == Matrix3IndexCol(m, 2)
        r0 == Vector3Cross(b, c)
        r1 == Vector3Cross(c, a)
        r2 == Vector3Cross(a, b)
        inv == Recip(Vector3Dot(r2, c))
    IN  Matrix3New(r0.x * inv, r0.y * inv, r0.z * inv,
                   r1.x * inv, r1.y * inv, r1.z * inv,
                   r2.x * inv, r2.y * inv, r2.z * inv)

\* transpose passing the entries on in the order new already takes them
Matrix3TransposeNoSwap(m) ==
    Matrix3New(N3(m, 0, 0), N3(m, 1, 0), N3(m, 2, 0),
               N3(m, 0, 1), N3(m, 1, 1), N3(m, 2, 1),
               N3(m, 0, 2), N3(m, 1, 2), N3(m, 2, 2))

Matrix3Transpose(m) ==
    Matrix3New(N3(m, 0, 0), N3(m, 0, 1), N3(m, 0, 2),
               N3(m, 1, 0), N3(m, 1, 1), N3(m, 1, 2),
               N3(m, 2, 0), N3(m, 2, 1), N3(m, 2, 2))

Matrix3Identity == Matrix3New(1, 0, 0, 0, 0, 1, 0, 0, 0)

\* #[derive(Default)]
Matrix3Default == Array3(Vector3New(0, 0, 0), Vector3New(0, 0, 0), Vector3New(0, 0, 0))

\* impl Mul<Vector3> for Matrix3
Matrix3MulVector3(self, other) ==
    Vector3New(
        N3(self, 0, 0) * other.x + N3(self, 1, 0) * other.y + N3(self, 2, 0) * other.z,
        N3(self, 0, 1) * other.x + N3(self, 1, 1) * other.y + N3(self, 2, 1) * other.z,
        N3(self, 0, 2) * other.x + N3(self, 1, 2) * other.y + N3(self, 2, 2) * other.z)

\* impl Mul<Matrix3> for Matrix3
Matrix3Mul(self, other) ==
    Matrix3New(
        N3(self, 0, 0) * Matrix3Index(other, 0, 0)
            + N3(self, 1, 0) * Matrix3Index(other, 1, 0)
            + N3(self, 2, 0) * Matrix3Index(other, 2, 0),
        N3(self, 0, 0) * Matrix3Index(other, 0, 1)
            + N3(self, 1, 0) * Matrix3Index(other, 1, 1)
            + N3(self, 2, 0) * Matrix3Index(other, 2, 1),
        N3(self, 0, 0) * Matrix3Index(other, 0, 2)
            + N3(self, 1, 0) * Matrix3Index(other, 1, 2)
            + N3(self, 2, 0) * Matrix3Index(other, 2, 2),
        N3(self, 0, 1) * Matrix3Index(other, 0, 0)
            + N3(self, 1, 1) * Matrix3Index(other, 1, 0)
            + N3(self, 2, 1) * Matrix3Index(other, 2, 0),
        N3(self, 0, 1) * Matrix3Index(other, 0, 1)
            + N3(self, 1, 1) * Matrix3Index(other, 1, 1)
            + N3(self, 2, 1) * Matrix3Index(other, 2, 1),
        N3(self, 0, 1) * Matrix3Index(other, 0, 2)
            + N3(self, 1, 1) * Matrix3Index(other, 1, 2)
            + N3(self, 2, 1) * Matrix3Index(other, 2, 2),
        N3(self, 0, 2) * Matrix3Index(other, 0, 0)
            + N3(self, 1, 2) * Matrix3Index(other, 1, 0)
            + N3(self, 2, 2) * Matrix3Index(other, 2, 0),
        N3(self, 1, 2) * Matrix3Index(other, 0, 1)
            + N3(self, 1, 2) * Matrix3Index(other, 1, 1)
            + N3(self, 2, 2) * Matrix3Index(other, 2, 1),
        N3(self, 1, 2) * Matrix3Index(other, 0, 2)
            + N3(self, 1, 2) * Matrix3Index(other, 1, 2)
            + N3(self, 2, 2) * Matrix3Index(other, 2, 2))

\* impl MulAssign<Matrix3> for Matrix3: sK is the value the K-th assignment of the
\* source computes, from the values the earlier ones have left
Matrix3MulAssign(self, other) ==
    LET s1 == N3(self, 0, 0) * Matrix3Index(other, 0, 0)
                  + N3(self, 1, 0) * Matrix3Index(other, 1, 0)
                  + N3(self, 2, 0) * Matrix3Index(other, 2, 0)
        s2 == s1 * Matrix3Index(other, 0, 1)
                  + N3(self, 1, 0) * Matrix3Index(other, 1, 1)
                  + N3(self, 2, 0) * Matrix3Index(other, 2, 1)
        s3 == s1 * Matrix3Index(other, 0, 2)
                  + s2 * Matrix3Index(other, 1, 2)
                  + N3(self, 2, 0) * Matrix3Index(other, 2, 2)
        s4 == N3(self, 0, 1) * Matrix3Index(other, 0, 0)
                  + N3(self, 1, 1) * Matrix3Index(other, 1, 0)
                  + N3(self, 2, 1) * Matrix3Index(other, 2, 0)
        s5 == N3(self, 0, 1) * Matrix3Index(other, 0, 1)
                  + N3(self, 1, 1) * Matrix3Index(other, 1, 1)
                  + N3(self, 2, 1) * Matrix3Index(other, 2, 1)
        s6 == N3(self, 0, 1) * Matrix3Index(other, 0, 2)
                  + s5 * Matrix3Index(other, 1, 2)
                  + N3(self, 2, 1) * Matrix3Index(other, 2, 2)
        s7 == N3(self, 0, 2) * Matrix3Index(other, 0, 0)
                  + s6 * Matrix3Index(other, 1, 0)
                  + N3(self, 2, 2) * Matrix3Index(other, 2, 0)
        s8 == s6 * Matrix3Index(other, 0, 1)
                  + s6 * Matrix3Index(other, 1, 1)
                  + N3(self, 2, 2) * Matrix3Index(other, 2, 1)
        s9 == s6 * Matrix3Index(other, 0, 2)
                  + s6 * Matrix3Index(other, 1, 2)
                  + N3(self, 2, 2) * Matrix3Index(other, 2, 2)
    IN  LET a1 == Matrix3Assign(self, 0, 0, s1)
            a2 == Matrix3Assign(a1, 1, 0, s2)
            a3 == Matrix3Assign(a2, 2, 0, s3)
            a4 == Matrix3Assign(a3, 1, 0, s4)
            a5 == Matrix3Assign(a4, 1, 1, s5)
            a6 == Matrix3Assign(a5, 1, 2, s6)
            a7 == Matrix3Assign(a6, 2, 0, s7)
            a8 == Matrix3Assign(a7, 2, 1, s8)
            a9 == Matrix3Assign(a8, 2, 2, s9)
        IN  a9

(***************************************************************************)
(* Matrix4 (matrix4.rs): the field elements, elements[col][row].           *)
(***************************************************************************)
Array4(a, b, c, d) == [i \in 0..3 |-> IF i = 0 THEN a ELSE IF i = 1 THEN b ELSE IF i = 2 THEN c ELSE d]

Matrix4New(a, b, c, d, e, f, g, h, i, j, k, l, m, n, o, p) ==
    Array4(Array4(a, e, i, m), Array4(b, f, j, n), Array4(c, g, k, o), Array4(d, h, l, p))

\* self.elements[c][r]
E4(m, c, r) == m[c][r]

\* impl Index<(usize, usize)> for Matrix4, under its bounds test
Matrix4IndexOk(row, col) == ~(row > 4 \/ col > 4)
Matrix4Index(m, row, col) == m[col][row]

Matrix4VecAt(m, index) == Vector3New(E4(m, index, 0), E4(m, index, 1), E4(m, index, 2))

\* the divisor of Matrix4::inverse: s.dot(&v) + t.dot(&u)
Matrix4InverseDivisor(self) ==
    LET a == Matrix4VecAt(self, 0)
        b == Matrix4VecAt(self, 1)
        c == Matrix4VecAt(self, 2)
        d == Matrix4VecAt(self, 3)
        x == E4(self, 0, 3)
        y == E4(self, 1, 3)
        z == E4(self, 2, 3)
        w == E4(self, 3, 3)
        s == Vector3Cross(a, b)
        t == Vector3Cross(c, d)
        u == Vector3Sub(Vector3MulScalar(a, y), Vector3MulScalar(b, x))
        v == Vector3Sub(Vector3MulScalar(c, w), Vector3MulScalar(d, z))
    IN  Vector3Dot(s, v) + Vector3Dot(t, u)

Matrix4Inverse(self) ==
    LET a == Matrix4VecAt(self, 0)
        b == Matrix4VecAt(self, 1)
        c == Matrix4VecAt(self, 2)
        d == Matrix4VecAt(self, 3)
        x == E4(self, 0, 3)
        y == E4(self, 1, 3)
        z == E4(self, 2, 3)
        w == E4(self, 3, 3)
        s0 == Vector3Cross(a, b)
        t0 == Vector3Cross(c, d)
        u0 == Vector3Sub(Vector3MulScalar(a, y), Vector3MulScalar(b, x))
        v0 == Vector3Sub(Vector3MulScalar(c, w), Vector3MulScalar(d, z))
        inv == Recip(Vector3Dot(s0, v0) + Vector3Dot(t0, u0))
        s == Vector3MulScalar(s0, inv)
        t == Vector3MulScalar(t0, inv)
        u == Vector3MulScalar(u0, inv)
        v == Vector3MulScalar(v0, inv)
        r0 == Vector3Add(Vector3Cross(b, v), Vector3MulScalar(t, y))
        r1 == Vector3Sub(Vector3Cross(v, a), Vector3MulScalar(t, x))
        r2 == Vector3Add(Vector3Cross(d, u), Vector3MulScalar(s, w))
        r3 == Vector3Sub(Vector3Cross(u, c), Vector3MulScalar(s, z))
    IN  Matrix4New(r0.x, r0.y, r0.z, 0 - Vector3Dot(b, t),
                   r1.x, r1.y, r1.z, Vector3Dot(a, t),
                   r2.x, r2.y, r2.z, 0 - Vector3Dot(d, s),
                   r3.x, r3.y, r3.z, Vector3Dot(c, s))

Matrix4Transpose(m) ==
    Matrix4New(E4(m, 0, 0), E4(m, 0, 1), E4(m, 0, 2), E4(m, 0, 3),
               E4(m, 1, 0), E4(m, 1, 1), E4(m, 1, 2), E4(m, 1, 3),
               E4(m, 2, 0), E4(m, 2, 1), E4(m, 2, 2), E4(m, 2, 3),
               E4(m, 3, 0), E4(m, 3, 1), E4(m, 3, 2), E4(m, 3, 3))

Matrix4Identity == Matrix4New(1, 0, 0, 0, 0, 1, 0, 0, 0, 0, 1, 0, 0, 0, 0, 1)

\* impl Mul<Matrix4> for Matrix4
Matrix4Mul(self, other) ==
    Matrix4New(
        E4(self, 0, 0) * Matrix4Index(other, 0, 0)
            + E4(self, 1, 0) * Matrix4Index(other, 1, 0)
            + E4(self, 2, 0) * Matrix4Index(other, 2, 0)
            + E4(self, 3, 0) * Matrix4Index(other, 3, 0),
        E4(self, 0, 0) * Matrix4Index(other, 0, 1)
            + E4(self, 1, 0) * Matrix4Index(other, 1, 1)
            + E4(self, 2, 0) * Matrix4Index(other, 2, 1)
            + E4(self, 3, 0) * Matrix4Index(other, 3, 1),
        E4(self, 0, 0) * Matrix4Index(other, 0, 2)
            + E4(self, 1, 0) * Matrix4Index(other, 1, 2)
            + E4(self, 2, 0) * Matrix4Index(other, 2, 2)
            + E4(self, 3, 0) * Matrix4Index(other, 3, 2),
        E4(self, 0, 0) * Matrix4Index(other, 0, 3)
            + E4(self, 1, 0) * Matrix4Index(other, 1, 3)
            + E4(self, 2, 0) * Matrix4Index(other, 2, 3)
            + E4(self, 3, 0) * Matrix4Index(other, 3, 3),
        E4(self, 0, 1) * Matrix4Index(other, 0, 0)
            + E4(self, 1, 1) * Matrix4Index(other, 1, 0)
            + E4(self, 2, 1) * Matrix4Index(other, 2, 0)
            + E4(self, 3, 1) * Matrix4Index(other, 3, 0),
        E4(self, 0, 1) * Matrix4Index(other, 0, 1)
            + E4(self, 1, 1) * Matrix4Index(other, 1, 1)
            + E4(self, 2, 1) * Matrix4Index(other, 2, 1)
            + E4(self, 3, 1) * Matrix4Index(other, 3, 1),
        E4(self, 0, 1) * Matrix4Index(other, 0, 2)
            + E4(self, 1, 1) * Matrix4Index(other, 1, 2)
            + E4(self, 2, 1) * Matrix4Index(other, 2, 2)
            + E4(self, 3, 1) * Matrix4Index(other, 3, 2),
        E4(self, 0, 1) * Matrix4Index(other, 0, 3)
            + E4(self, 1, 1) * Matrix4Index(other, 1, 3)
            + E4(self, 2, 1) * Matrix4Index(other, 2, 3)
            + E4(self, 3, 1) * Matrix4Index(other, 3, 3),
        E4(self, 0, 2) * Matrix4Index(other, 0, 0)
            + E4(self, 1, 2) * Matrix4Index(other, 1, 0)
            + E4(self, 2, 2) * Matrix4Index(other, 2, 0)
            + E4(self, 3, 2) * Matrix4Index(other, 3, 0),
        E4(self, 0, 2) * Matrix4Index(other, 0, 1)
            + E4(self, 1, 2) * Matrix4Index(other, 1, 1)
            + E4(self, 2, 2) * Matrix4Index(other, 2, 1)
            + E4(self, 3, 2) * Matrix4Index(other, 3, 1),
        E4(self, 0, 2) * Matrix4Index(other, 0, 2)
            + E4(self, 1, 2) * Matrix4Index(other, 1, 2)
            + E4(self, 2, 2) * Matrix4Index(other, 2, 2)
            + E4(self, 3, 2) * Matrix4Index(other, 3, 2),
        E4(self, 0, 2) * Matrix4Index(other, 0, 3)
            + E4(self, 1, 2) * Matrix4Index(other, 1, 3)
            + E4(self, 2, 2) * Matrix4Index(other, 2, 3)
            + E4(self, 3, 2) * Matrix4Index(other, 3, 3),
        E4(self, 0, 3) * Matrix4Index(other, 0, 0)
            + E4(self, 1, 3) * Matrix4Index(other, 1, 0)
            + E4(self, 2, 3) * Matrix4Index(other, 2, 0)
            + E4(self, 3, 3) * Matrix4Index(other, 3, 0),
        E4(self, 0, 3) * Matrix4Index(other, 0, 1)
            + E4(self, 1, 3) * Matrix4Index(other, 1, 1)
            + E4(self, 2, 3) * Matrix4Index(other, 2, 1)
            + E4(self, 3, 3) * Matrix4Index(other, 3, 1),
        E4(self, 0, 3) * Matrix4Index(other, 0, 2)
            + E4(self, 1, 3) * Matrix4Index(other, 1, 2)
            + E4(self, 2, 3) * Matrix4Index(other, 2, 2)
            + E4(self, 3, 3) * Matrix4Index(other, 3, 2),
        E4(self, 0, 3) * Matrix4Index(other, 0, 3)
            + E4(self, 1, 3) * Matrix4Index(other, 1, 3)
            + E4(self, 2, 3) * Matrix4Index(other, 2, 3)
            + E4(self, 3, 3) * Matrix4Index(other, 3, 3))

\* impl MulAssign<Matrix4> for Matrix4: sK is the value the K-th assignment of the
\* source computes, from the values the earlier ones have left
Matrix4MulAssign(self, other) ==
    LET s1 == E4(self, 0, 0) * Matrix4Index(other, 0, 0)
                  + E4(self, 1, 0) * Matrix4Index(other, 1, 0)
                  + E4(self, 2, 0) * Matrix4Index(other, 2, 0)
                  + E4(self, 3, 0) * Matrix4Index(other, 3, 0)
        s2 == s1 * Matrix4Index(other, 0, 1)
                  + E4(self, 1, 0) * Matrix4Index(other, 1, 1)
                  + E4(self, 2, 0) * Matrix4Index(other, 2, 1)
                  + E4(self, 3, 0) * Matrix4Index(other, 3, 1)
        s3 == s1 * Matrix4Index(other, 0, 2)
                  + s2 * Matrix4Index(other, 1, 2)
                  + E4(self, 2, 0) * Matrix4Index(other, 2, 2)
                  + E4(self, 3, 0) * Matrix4Index(other, 3, 2)
        s4 == s1 * Matrix4Index(other, 0, 3)
                  + s2 * Matrix4Index(other, 1, 3)
                  + s3 * Matrix4Index(other, 2, 3)
                  + E4(self, 3, 0) * Matrix4Index(other, 3, 3)
        s5 == E4(self, 0, 1) * Matrix4Index(other, 0, 0)
                  + E4(self, 1, 1) * Matrix4Index(other, 1, 0)
                  + E4(self, 2, 1) * Matrix4Index(other, 2, 0)
                  + E4(self, 3, 1) * Matrix4Index(other, 3, 0)
        s6 == s5 * Matrix4Index(other, 0, 1)
                  + E4(self, 1, 1) * Matrix4Index(other, 1, 1)
                  + E4(self, 2, 1) * Matrix4Index(other, 2, 1)
                  + E4(self, 3, 1) * Matrix4Index(other, 3, 1)
        s7 == s5 * Matrix4Index(other, 0, 2)
                  + s6 * Matrix4Index(other, 1, 2)
                  + E4(self, 2, 1) * Matrix4Index(other, 2, 2)
                  + E4(self, 3, 1) * Matrix4Index(other, 3, 2)
        s8 == s5 * Matrix4Index(other, 0, 3)
                  + s6 * Matrix4Index(other, 1, 3)
                  + s7 * Matrix4Index(other, 2, 3)
                  + E4(self, 3, 1) * Matrix4Index(other, 3, 3)
        s9 == E4(self, 0, 2) * Matrix4Index(other, 0, 0)
                  + E4(self, 1, 2) * Matrix4Index(other, 1, 0)
                  + E4(self, 2, 2) * Matrix4Index(other, 2, 0)
                  + E4(self, 3, 2) * Matrix4Index(other, 3, 0)
        s10 == s9 * Matrix4Index(other, 0, 1)
                  + E4(self, 1, 2) * Matrix4Index(other, 1, 1)
                  + E4(self, 2, 2) * Matrix4Index(other, 2, 1)
                  + E4(self, 3, 2) * Matrix4Index(other, 3, 1)
        s11 == s9 * Matrix4Index(other, 0, 2)
                  + s10 * Matrix4Index(other, 1, 2)
                  + E4(self, 2, 2) * Matrix4Index(other, 2, 2)
                  + E4(self, 3, 2) * Matrix4Index(other, 3, 2)
        s12 == s9 * Matrix4Index(other, 0, 3)
                  + s10 * Matrix4Index(other, 1, 3)
                  + s11 * Matrix4Index(other, 2, 3)
                  + E4(self, 3, 2) * Matrix4Index(other, 3, 3)
        s13 == E4(self, 0, 3) * Matrix4Index(other, 0, 0)
                  + E4(self, 1, 3) * Matrix4Index(other, 1, 0)
                  + E4(self, 2, 3) * Matrix4Index(other, 2, 0)
                  + E4(self, 3, 3) * Matrix4Index(other, 3, 0)
        s14 == s13 * Matrix4Index(other, 0, 1)
                  + E4(self, 1, 3) * Matrix4Index(other, 1, 1)
                  + E4(self, 2, 3) * Matrix4Index(other, 2, 1)
                  + E4(self, 3, 3) * Matrix4Index(other, 3, 1)
        s15 == s13 * Matrix4Index(other, 0, 2)
                  + s14 * Matrix4Index(other, 1, 2)
                  + E4(self, 2, 3) * Matrix4Index(other, 2, 2)
                  + E4(self, 3, 3) * Matrix4Index(other, 3, 2)
        s16 == s13 * Matrix4Index(other, 0, 3)
                  + s14 * Matrix4Index(other, 1, 3)
                  + s15 * Matrix4Index(other, 2, 3)
                  + E4(self, 3, 3) * Matrix4Index(other, 3, 3)
    IN  [self EXCEPT ![0][0] = s1, ![1][0] = s2, ![2][0] = s3, ![3][0] = s4,
                     ![0][1] = s5, ![1][1] = s6, ![2][1] = s7, ![3][1] = s8,
                     ![0][2] = s9, ![1][2] = s10, ![2][2] = s11, ![3][2] = s12,
                     ![0][3] = s13, ![1][3] = s14, ![2][3] = s15, ![3][3] = s16]

(***************************************************************************)
(* Transform4 (transform4.rs): the field elements, elements[col][row];     *)
(* elements[col][3] holds the bottom row.                                  *)
(***************************************************************************)
Transform4New(a, b, c, d, e, f, g, h, i, j, k, l) ==
    Array4(Array4(a, e, i, 0), Array4(b, f, j, 0), Array4(c, g, k, 0), Array4(d, h, l, 1))

\* Transform4::new_with_vecs(&a, &b, &c, &p): the fourth component of the last
\* column is 0.0
Transform4NewWithVecs(a, b, c, p) ==
    Array4(Array4(a.x, a.y, a.z, 0), Array4(b.x, b.y, b.z, 0),
           Array4(c.x, c.y, c.z, 0), Array4(p.x, p.y, p.z, 0))

\* self.elements[c][r]
T4(m, c, r) == m[c][r]

\* impl Index<(usize, usize)> for Transform4, under its bounds test
Transform4IndexOk(row, col) == ~(row > 4 \/ col > 4)
Transform4Index(m, row, col) == m[col][row]

Transform4VecAt(m, index) == Vector3New(T4(m, index, 0), T4(m, index, 1), T4(m, index, 2))

\* the divisor of Transform4::inverse: s.dot(&c)
Transform4InverseDivisor(self) ==
    Vector3Dot(Vector3Cross(Transform4VecAt(self, 0), Transform4VecAt(self, 1)),
               Transform4VecAt(self, 2))

Transform4Inverse(self) ==
    LET a == Transform4VecAt(self, 0)
        b == Transform4VecAt(self, 1)
        c == Transform4VecAt(self, 2)
        d == Transform4VecAt(self, 3)
        s0 == Vector3Cross(a, b)
        t0 == Vector3Cross(c, d)
        inv_det == Recip(Vector3Dot(s0, c))
        s == Vector3MulScalar(s0, inv_det)
        t == Vector3MulScalar(t0, inv_det)
        v == Vector3MulScalar(c, inv_det)
        r0 == Vector3Cross(b, v)
        r1 == Vector3Cross(v, a)
    IN  Transform4New(r0.x, r0.y, r0.z, 0 - Vector3Dot(b, t),
                      r1.x, r1.y, r1.z, Vector3Dot(a, t),
                      s.x, s.y, s.z, 0 - Vector3Dot(d, s))

\* impl Mul<Vector3> for Transform4
Transform4MulVector3(self, other) ==
    Vector3New(
        T4(self, 0, 0) * other.x + T4(self, 1, 0) * other.y + T4(self, 2, 0) * other.z,
        T4(self, 0, 1) * other.x + T4(self, 1, 1) * other.y + T4(self, 2, 1) * other.z,
        T4(self, 0, 2) * other.x + T4(self, 1, 2) * other.y + T4(self, 2, 2) * other.z)

\* the product with a point, the translation left out
Transform4MulPoint3NoTranslation(self, other) ==
    Point3New(
        T4(self, 0, 0) * other.x + T4(self, 1, 0) * other.y + T4(self, 2, 0) * other.z,
        T4(self, 0, 1) * other.x + T4(self, 1, 1) * other.y + T4(self, 2, 1) * other.z,
        T4(self, 0, 2) * other.x + T4(self, 1, 2) * other.y + T4(self, 2, 2) * other.z)

\* impl Mul<Point3> for Transform4
Transform4MulPoint3(self, other) ==
    Point3New(
        T4(self, 0, 0) * other.x + T4(self, 1, 0) * other.y + T4(self, 2, 0) * other.z
            + T4(self, 3, 0),
        T4(self, 0, 1) * other.x + T4(self, 1, 1) * other.y + T4(self, 2, 1) * other.z
            + T4(self, 3, 1),
        T4(self, 0, 2) * other.x + T4(self, 1, 2) * other.y + T4(self, 2, 2) * other.z
            + T4(self, 3, 2))

\* impl Mul<Transform4> for Transform4: the twelve arguments of Self::new, as the
\* source writes them
Transform4Mul(self, other) ==
    Transform4New(
        T4(self, 0, 0) * Transform4Index(other, 0, 0)
            + T4(self, 1, 0) * Transform4Index(other, 1, 0)
            + T4(self, 2, 0) * Transform4Index(other, 2, 0),
        T4(self, 0, 0) * Transform4Index(other, 0, 1)
            + T4(self, 1, 0) * Transform4Index(other, 1, 1)
            + T4(self, 2, 0) * Transform4Index(other, 2, 1),
        T4(self, 0, 0) * Transform4Index(other, 0, 2)
            + T4(self, 1, 0) * Transform4Index(other, 1, 2)
            + T4(self, 2, 0) * Transform4Index(other, 2, 2),
        T4(self, 0, 0) * Transform4Index(other, 0, 3)
            + T4(self, 1, 0) * Transform4Index(other, 1, 3)
            + T4(self, 2, 0) * Transform4Index(other, 2, 3)
            + T4(self, 3, 0),
        T4(self, 0, 1) * Transform4Index(other, 0, 0)
            + T4(self, 1, 1) * Transform4Index(other, 1, 0)
            + T4(self, 2, 1) * Transform4Index(other, 2, 0),
        T4(self, 0, 1) * Transform4Index(other, 0, 1)
            + T4(self, 1, 1) * Transform4Index(other, 1, 1)
            + T4(self, 2, 1) * Transform4Index(other, 2, 1),
        T4(self, 0, 1) * Transform4Index(other, 0, 2)
            + T4(self, 1, 1) * Transform4Index(other, 1, 2)
            + T4(self, 2, 1) * Transform4Index(other, 2, 2),
        T4(self, 0, 1) * Transform4Index(other, 0, 3)
            + T4(self, 1, 0) * Transform4Index(other, 1, 3)
            + T4(self, 2, 0) * Transform4Index(other, 2, 3)
            + T4(self, 3, 1),
        T4(self, 0, 2) * Transform4Index(other, 0, 0)
            + T4(self, 1, 2) * Transform4Index(other, 1, 0)
            + T4(self, 2, 2) * Transform4Index(other, 2, 0),
        T4(self, 0, 2) * Transform4Index(other, 0, 1)
            + T4(self, 1, 2) * Transform4Index(other, 1, 1)
            + T4(self, 2, 2) * Transform4Index(other, 2, 1),
        T4(self, 0, 2) * Transform4Index(other, 0, 2)
            + T4(self, 1, 2) * Transform4Index(other, 1, 2)
            + T4(self, 2, 2) * Transform4Index(other, 2, 2),
        T4(self, 0, 2) * Transform4Index(other, 0, 3)
            + T4(self, 1, 0) * Transform4Index(other, 1, 3)
            + T4(self, 2, 0) * Transform4Index(other, 2, 3)
            + T4(self, 3, 2))

\* impl MulAssign<Transform4> for Transform4: sK is the value the K-th assignment of the
\* source computes, from the values the earlier ones have left
Transform4MulAssign(self, other) ==
    LET s1 == T4(self, 0, 0) * Transform4Index(other, 0, 0)
                  + T4(self, 1, 0) * Transform4Index(other, 1, 0)
                  + T4(self, 2, 0) * Transform4Index(other, 2, 0)
        s2 == s1 * Transform4Index(other, 0, 1)
                  + T4(self, 1, 0) * Transform4Index(other, 1, 1)
                  + T4(self, 2, 0) * Transform4Index(other, 2, 1)
        s3 == s1 * Transform4Index(other, 0, 2)
                  + s2 * Transform4Index(other, 1, 2)
                  + T4(self, 2, 0) * Transform4Index(other, 2, 2)
        s4 == s1 * Transform4Index(other, 0, 3)
                  + s2 * Transform4Index(other, 1, 3)
                  + s3 * Transform4Index(other, 2, 3)
                  + T4(self, 3, 0)
        s5 == T4(self, 0, 1) * Transform4Index(other, 0, 0)
                  + T4(self, 1, 1) * Transform4Index(other, 1, 0)
                  + T4(self, 2, 1) * Transform4Index(other, 2, 0)
        s6 == s5 * Transform4Index(other, 0, 1)
                  + T4(self, 1, 1) * Transform4Index(other, 1, 1)
                  + T4(self, 2, 1) * Transform4Index(other, 2, 1)
        s7 == s5 * Transform4Index(other, 0, 2)
                  + s6 * Transform4Index(other, 1, 2)
                  + T4(self, 2, 1) * Transform4Index(other, 2, 2)
        s8 == s5 * Transform4Index(other, 0, 3)
                  + s2 * Transform4Index(other, 1, 3)
                  + s3 * Transform4Index(other, 2, 3)
                  + T4(self, 3, 1)
        s9 == T4(self, 0, 2) * Transform4Index(other, 0, 0)
                  + T4(self, 1, 2) * Transform4Index(other, 1, 0)
                  + T4(self, 2, 2) * Transform4Index(other, 2, 0)
        s10 == s9 * Transform4Index(other, 0, 1)
                  + T4(self, 1, 2) * Transform4Index(other, 1, 1)
                  + T4(self, 2, 2) * Transform4Index(other, 2, 1)
        s11 == s9 * Transform4Index(other, 0, 2)
                  + s10 * Transform4Index(other, 1, 2)
                  + T4(self, 2, 2) * Transform4Index(other, 2, 2)
        s12 == s9 * Transform4Index(other, 0, 3)
                  + s2 * Transform4Index(other, 1, 3)
                  + s3 * Transform4Index(other, 2, 3)
                  + T4(self, 3, 2)
    IN  [self EXCEPT ![0][0] = s1, ![1][0] = s2, ![2][0] = s3, ![3][0] = s4,
                     ![0][1] = s5, ![1][1] = s6, ![2][1] = s7, ![3][1] = s8,
                     ![0][2] = s9, ![1][2] = s10, ![2][2] = s11, ![3][2] = s12]

Transform4Identity == Transform4New(1, 0, 0, 0, 0, 1, 0, 0, 0, 0, 1, 0)

Transform4MakeTranslation(v) == Transform4New(1, 0, 0, v.x, 0, 1, 0, v.y, 0, 0, 1, v.z)

Transform4GetTranslation(self) == Point3New(T4(self, 0, 3), T4(self, 1, 3), T4(self, 2, 3))

Transform4SetTranslation(self, p) ==
    [self EXCEPT ![3] = [@ EXCEPT ![0] = p.x, ![1] = p.y, ![2] = p.z]]

\* An angle is given by the values angle.cos() and angle.sin() return.
Cos(angle) == angle.cos
Sin(angle) == angle.sin

\* Matrix2::make_rotation(a)
Matrix2MakeRotation(a) ==
    LET c == Cos(a)
        s == Sin(a)
    IN  Matrix2New(c, 0 - s, s, 0 - c)

\* a rotation about z with the sign of s on the other entry
Transform4MakeRotationZReversed(angle) ==
    LET c == Cos(angle)
        s == Sin(angle)
    IN  Transform4New(c, s, 0, 0, 0 - s, c, 0, 0, 0, 0, 1, 0)

Transform4MakeRotationZ(angle) ==
    LET c == Cos(angle)
        s == Sin(angle)
    IN  Transform4New(c, 0 - s, 0, 0, s, c, 0, 0, 0, 0, 1, 0)

(***************************************************************************)
(* The (row, col) index operators with their failures: an operator either  *)
(* panics or returns (the element read, or the matrix after the write).    *)
(***************************************************************************)
Panic == [panic |-> TRUE, value |-> <<>>]
Returned(v) == [panic |-> FALSE, value |-> v]

\* impl Index<(usize, usize)> / IndexMut<(usize, usize)> for Matrix2
Matrix2IndexChecked(m, row, col) ==
    IF Matrix2IndexOk(row, col) THEN Returned(Matrix2Index(m, row, col)) ELSE Panic
Matrix2IndexMutChecked(m, row, col, val) ==
    IF Matrix2IndexOk(row, col) THEN Returned(Matrix2Assign(m, col, row, val)) ELSE Panic

\* impl Index<(usize, usize)> / IndexMut<(usize, usize)> for Matrix3
Matrix3IndexChecked(m, row, col) ==
    IF Matrix3IndexOk(row, col) THEN Returned(Matrix3Index(m, row, col)) ELSE Panic
Matrix3IndexMutChecked(m, row, col, val) ==
    IF Matrix3IndexOk(row, col) THEN Returned(Matrix3Assign(m, col, row, val)) ELSE Panic

\* a[i] on an array [T; 4]: the index is checked against the length
Array4InBounds(i) == i < 4

\* the index operator of Matrix4 with its own test only, the index taken modulo
\* the length where the array would refuse it
Matrix4IndexCheckedWrapping(m, row, col) ==
    IF ~Matrix4IndexOk(row, col) THEN Panic ELSE Returned(m[col % 4][row % 4])

\* impl Index<(usize, usize)> / IndexMut<(usize, usize)> for Matrix4: the test
\* row > 4 || col > 4, then self.elements[col][row]
Matrix4IndexChecked(m, row, col) ==
    IF ~Matrix4IndexOk(row, col) THEN Panic
    ELSE IF ~Array4InBounds(col) THEN Panic
    ELSE IF ~Array4InBounds(row) THEN Panic
    ELSE Returned(m[col][row])
Matrix4IndexMutChecked(m, row, col, val) ==
    IF ~Matrix4IndexOk(row, col) THEN Panic
    ELSE IF ~Array4InBounds(col) THEN Panic
    ELSE IF ~Array4InBounds(row) THEN Panic
    ELSE Returned([m EXCEPT ![col][row] = val])

(***************************************************************************)
(* f32 outside the finite values: the result of a division by zero and     *)
(* what arithmetic makes of it.  An extended value is finite, an infinity  *)
(* (its sign is not tracked) or NaN.                                       *)
(***************************************************************************)
Finite(n) == [kind |-> "finite", val |-> n]
Infinity == [kind |-> "inf", val |-> 0]
NaN == [kind |-> "nan", val |-> 0]
IsFinite(e) == e.kind = "finite"

Abs(x) == IF x < 0 THEN 0 - x ELSE x

\* a / b: exact when b divides a, an infinity or NaN when b is zero
F32DivExact(a, b) == IF b = 0 THEN TRUE ELSE a % Abs(b) = 0
F32Div(a, b) ==
    IF b # 0 THEN Finite(a \div b) ELSE IF a = 0 THEN NaN ELSE Infinity

\* a * e and a - e for a finite a
F32MulExt(a, e) ==
    IF IsFinite(e) THEN Finite(a * e.val)
    ELSE IF e.kind = "nan" \/ a = 0 THEN NaN ELSE Infinity
F32SubExt(a, e) == IF IsFinite(e) THEN Finite(a - e.val) ELSE e

\* f32::MIN, the most negative finite f32 (about -3.4e38): it is below every
\* value, and the model gives it the most negative integer it computes with.
F32_MIN == 0 - 2147483647

\* Option<T>
None == [some |-> FALSE, value |-> <<>>]
Some(v) == [some |-> TRUE, value |-> v]

\* impl Mul<f32> for Matrix4
Matrix4MulScalar(self, scalar) ==
    Matrix4New(
        E4(self, 0, 0) * scalar, E4(self, 1, 0) * scalar, E4(self, 2, 0) * scalar, E4(self, 3, 0) * scalar,
        E4(self, 0, 1) * scalar, E4(self, 1, 1) * scalar, E4(self, 2, 1) * scalar, E4(self, 3, 1) * scalar,
        E4(self, 0, 2) * scalar, E4(self, 1, 2) * scalar, E4(self, 2, 2) * scalar, E4(self, 3, 2) * scalar,
        E4(self, 0, 3) * scalar, E4(self, 1, 3) * scalar, E4(self, 2, 3) * scalar, E4(self, 3, 3) * scalar)

\* impl Div<f32> for Matrix4: s is 1.0 / rhs, kept as the fraction num / den,
\* and every element is divided by s.  The quotient x / s is x * den / num, which
\* f32 computes exactly when rhs is a power of two.
Matrix4DivScalar(self, rhs) ==
    LET s == [num |-> 1, den |-> rhs]
        Quot(x) == F32Div(x * s.den, s.num).val
    IN  Matrix4New(
            Quot(E4(self, 0, 0)), Quot(E4(self, 1, 0)), Quot(E4(self, 2, 0)), Quot(E4(self, 3, 0)),
            Quot(E4(self, 0, 1)), Quot(E4(self, 1, 1)), Quot(E4(self, 2, 1)), Quot(E4(self, 3, 1)),
            Quot(E4(self, 0, 2)), Quot(E4(self, 1, 2)), Quot(E4(self, 2, 2)), Quot(E4(self, 3, 2)),
            Quot(E4(self, 0, 3)), Quot(E4(self, 1, 3)), Quot(E4(self, 2, 3)), Quot(E4(self, 3, 3)))

\* impl DivAssign<f32> for Matrix4: every element /= rhs
Matrix4DivAssignExact(self, rhs) ==
    \A c \in 0..3, r \in 0..3 : F32DivExact(E4(self, c, r), rhs)
Matrix4DivAssign(self, rhs) ==
    [c \in 0..3 |-> [r \in 0..3 |-> F32Div(E4(self, c, r), rhs).val]]

(***************************************************************************)
(* Plane (plane.rs) and the intersection routines (plane.rs, point3.rs)    *)
(***************************************************************************)
PlaneNew(x, y, z, w) == [x |-> x, y |-> y, z |-> z, w |-> w]

PlaneGetNormal(self) == Vector3New(self.x, self.x, self.x)

PlaneVecDot(self, v) == self.x * v.x + self.y * v.y + self.z * v.z

PlanePointDot(self, v) == self.x * v.x + self.y * v.y + self.z * v.z + self.w

\* the product with the transform read by columns instead of rows
PlaneMulTransform4Transposed(self, rhs) ==
    PlaneNew(
        self.x * Transform4Index(rhs, 0, 0) + self.y * Transform4Index(rhs, 0, 1)
            + self.z * Transform4Index(rhs, 0, 2),
        self.x * Transform4Index(rhs, 1, 0) + self.y * Transform4Index(rhs, 1, 1)
            + self.z * Transform4Index(rhs, 1, 2),
        self.x * Transform4Index(rhs, 2, 0) + self.y * Transform4Index(rhs, 2, 1)
            + self.z * Transform4Index(rhs, 2, 2),
        self.x * Transform4Index(rhs, 3, 0) + self.y * Transform4Index(rhs, 3, 1)
            + self.z * Transform4Index(rhs, 3, 2) + self.w)

\* impl Mul<Transform4> for Plane
PlaneMulTransform4(self, rhs) ==
    PlaneNew(
        self.x * Transform4Index(rhs, 0, 0) + self.y * Transform4Index(rhs, 1, 0)
            + self.z * Transform4Index(rhs, 2, 0),
        self.x * Transform4Index(rhs, 0, 1) + self.y * Transform4Index(rhs, 1, 1)
            + self.z * Transform4Index(rhs, 2, 1),
        self.x * Transform4Index(rhs, 0, 2) + self.y * Transform4Index(rhs, 1, 2)
            + self.z * Transform4Index(rhs, 2, 2),
        self.x * Transform4Index(rhs, 0, 3) + self.y * Transform4Index(rhs, 1, 3)
            + self.z * Transform4Index(rhs, 2, 3) + self.w)

\* Some(*p - *v * (f.point_dot(p) / fv)), or None
PlaneLineIntersect(p, v, f) ==
    LET fv == PlaneVecDot(f, v)
    IN  IF Abs(fv) > F32_MIN
        THEN LET t == F32Div(PlanePointDot(f, p), fv)
             IN  Some([x |-> F32SubExt(p.x, F32MulExt(v.x, t)),
                       y |-> F32SubExt(p.y, F32MulExt(v.y, t)),
                       z |-> F32SubExt(p.z, F32MulExt(v.z, t))])
        ELSE None

\* impl Div<f32> for Vector3
Vector3DivExact(self, other) ==
    /\ F32DivExact(self.x, other)
    /\ F32DivExact(self.y, other)
    /\ F32DivExact(self.z, other)
Vector3Div(self, other) ==
    [x |-> F32Div(self.x, other), y |-> F32Div(self.y, other), z |-> F32Div(self.z, other)]

\* det and the vector divided by it in three_planes_intersect
ThreePlanesDet(f1, f2, f3) ==
    Vector3Dot(Vector3Cross(PlaneGetNormal(f1), PlaneGetNormal(f2)), PlaneGetNormal(f3))
ThreePlanesNumerator(f1, f2, f3) ==
    LET n1 == PlaneGetNormal(f1)
        n2 == PlaneGetNormal(f2)
        n3 == PlaneGetNormal(f3)
        n1xn2 == Vector3Cross(n1, n2)
    IN  Vector3Sub(Vector3Add(Vector3MulScalar(Vector3Cross(n3, n2), f1.w),
                              Vector3MulScalar(Vector3Cross(n1, n3), f2.w)),
                   Vector3MulScalar(n1xn2, f3.w))

\* three_planes_intersect: the value returned and the point p it leaves
\* (p0 when it does not assign p)
ThreePlanesIntersect(f1, f2, f3, p0) ==
    LET det == ThreePlanesDet(f1, f2, f3)
    IN  IF Abs(det) > F32_MIN
        THEN [ret |-> TRUE, p |-> Vector3Div(ThreePlanesNumerator(f1, f2, f3), det)]
        ELSE [ret |-> FALSE, p |-> p0]

\* v, det and the vector divided by it in two_planes_intersect
TwoPlanesDirection(f1, f2) == Vector3Cross(PlaneGetNormal(f1), PlaneGetNormal(f2))
TwoPlanesDet(f1, f2) == Vector3Dot(TwoPlanesDirection(f1, f2), TwoPlanesDirection(f1, f2))
TwoPlanesNumerator(f1, f2) ==
    LET n1 == PlaneGetNormal(f1)
        n2 == PlaneGetNormal(f2)
        v == TwoPlanesDirection(f1, f2)
    IN  Vector3Add(Vector3MulScalar(Vector3Cross(v, n2), f1.w),
                   Vector3MulScalar(Vector3Cross(n1, v), f2.w))

\* two_planes_intersect: the value returned, the point p and the direction v
TwoPlanesIntersect(f1, f2, p0) ==
    LET v == TwoPlanesDirection(f1, f2)
        det == TwoPlanesDet(f1, f2)
    IN  IF Abs(det) > F32_MIN
        THEN [ret |-> TRUE, p |-> Vector3Div(TwoPlanesNumerator(f1, f2), det), v |-> v]
        ELSE [ret |-> FALSE, p |-> p0, v |-> v]

(***************************************************************************)
(* Line (line.rs): a direction and a moment.                               *)
(***************************************************************************)
LineNew(vx, vy, vz, mx, my, mz) ==
    [direction |-> Vector3New(vx, vy, vz), moment |-> Vector3New(mx, my, mz)]

\* self.transform(&h).  The source binds `moment` twice: the second binding,
\* `let moment = self.moment;`, shadows the first (adj * self.moment +
\* t.cross(&direction)), whose value is dropped.
LineTransform(self, h) ==
    LET direction == Transform4MulVector3(h, self.direction)
        moment == self.moment
    IN  [direction |-> direction, moment |-> moment]

\* self.transform_mut(&h); the value is self afterwards
LineTransformMut(self, h) ==
    LET l == LineTransform(self, h)
    IN  [self EXCEPT !.direction = l.direction, !.moment = l.moment]

(***************************************************************************)
(* Quarternion (quarternion.rs)                                            *)
(***************************************************************************)
QuarternionNew(x, y, z, w) == [x |-> x, y |-> y, z |-> z, w |-> w]

QuarternionGetVectorPart(self) == Vector3New(self.x, self.x, self.x)

\* get_rotation_matrix with the sign of every product with w the other way round
QuarternionGetRotationMatrixInReversed(self, one) ==
    LET x2 == self.x * self.x
        y2 == self.y * self.y
        z2 == self.z * self.z
        xy == self.x * self.y
        xz == self.x * self.z
        yz == self.y * self.z
        wx == self.w * self.x
        wy == self.w * self.y
        wz == self.w * self.z
    IN  Matrix3New(one - 2 * (y2 + z2), 2 * (xy + wz), 2 * (xz - wy),
                   2 * (xy - wz), one - 2 * (x2 + z2), 2 * (yz + wx),
                   2 * (xz + wy), 2 * (yz - wx), one - 2 * (x2 + y2))

\* get_rotation_matrix with the components in fixed point: a product of two
\* components is in the unit of the entries, and one is 1.0 in that unit.
QuarternionGetRotationMatrixIn(self, one) ==
    LET x2 == self.x * self.x
        y2 == self.y * self.y
        z2 == self.z * self.z
        xy == self.x * self.y
        xz == self.x * self.z
        yz == self.y * self.z
        wx == self.w * self.x
        wy == self.w * self.y
        wz == self.w * self.z
    IN  Matrix3New(one - 2 * (y2 + z2), 2 * (xy - wz), 2 * (xz + wy),
                   2 * (xy + wz), one - 2 * (x2 + z2), 2 * (yz - wx),
                   2 * (xz - wy), 2 * (yz + wx), one - 2 * (x2 + y2))

QuarternionGetRotationMatrix(self) == QuarternionGetRotationMatrixIn(self, 1)

\* the product with the operands exchanged
QuarternionMulExchanged(self, rhs) ==
    QuarternionNew(
        rhs.w * self.x + rhs.x * self.w + rhs.y * self.z - rhs.z * self.y,
        rhs.w * self.y - rhs.x * self.z + rhs.y * self.w + rhs.z * self.x,
        rhs.w * self.z + rhs.x * self.y - rhs.y * self.x + rhs.z * self.w,
        rhs.w * self.w - rhs.x * self.x - rhs.y * self.y - rhs.z * self.z)

\* impl Mul<Quarternion> for Quarternion
QuarternionMul(self, rhs) ==
    QuarternionNew(
        self.w * rhs.x + self.x * rhs.w + self.y * rhs.z - self.z * rhs.y,
        self.w * rhs.y - self.x * rhs.z + self.y * rhs.w + self.z * rhs.x,
        self.w * rhs.z + self.x * rhs.y - self.y * rhs.x + self.z * rhs.w,
        self.w * rhs.w - self.x * rhs.x - self.y * rhs.y - self.z * rhs.z)

\* impl MulAssign<Quarternion> for Quarternion: sK is the value the K-th assignment of the
\* source computes, from the values the earlier ones have left
QuarternionMulAssign(self, rhs) ==
    LET s1 == self.w * rhs.x + self.x * rhs.w + self.y * rhs.z - self.z * rhs.y
        s2 == self.w * rhs.y - s1 * rhs.z + self.y * rhs.w + self.z * rhs.x
        s3 == self.w * rhs.z + s1 * rhs.y - s2 * rhs.x + self.z * rhs.w
        s4 == self.w * rhs.w - s1 * rhs.x - s2 * rhs.y - s3 * rhs.z
    IN  [self EXCEPT !.x = s1, !.y = s2, !.z = s3, !.w = s4]

\* f32::sqrt on the perfect squares
IsSquare(n) == n >= 0 /\ \E r \in 0..n : r * r = n
Sqrt(n) == CHOOSE r \in 0..n : r * r = n

\* set_rotation_matrix in fixed point: the entries of m are over den * den and
\* the components it sets are over den, so that sqrt(s + 1.0) * 0.5 is
\* Sqrt(s + den * den) / 2 and d * (0.25 / c) is d / (4 * c).
\* pivot is the component the branch takes the square root for, rest3 the three
\* numerators it multiplies by f = 0.25 / pivot.
QuarternionSetRotationMatrixBranch(m) ==
    LET m00 == Matrix3Index(m, 0, 0)
        m11 == Matrix3Index(m, 1, 1)
        m22 == Matrix3Index(m, 2, 2)
        sum == m00 + m11 + m22
    IN  IF sum > 0 THEN "w"
        ELSE IF (m00 > m11) /\ (m00 > m22) THEN "x"
        ELSE IF m11 > m22 THEN "y"
        ELSE "z"

QuarternionSetRotationMatrixRadicand(m, den) ==
    LET m00 == Matrix3Index(m, 0, 0)
        m11 == Matrix3Index(m, 1, 1)
        m22 == Matrix3Index(m, 2, 2)
        b == QuarternionSetRotationMatrixBranch(m)
    IN  IF b = "w" THEN m00 + m11 + m22 + den * den
        ELSE IF b = "x" THEN m00 - m11 - m22 + den * den
        ELSE IF b = "y" THEN m11 - m00 - m22 + den * den
        ELSE m22 - m00 - m11 + den * den

\* the terms with the differences of the branch sum > 0 taken the other way round
QuarternionSetRotationMatrixTermsReversed(m) ==
    LET b == QuarternionSetRotationMatrixBranch(m)
    IN  IF b = "w" THEN
            <<Matrix3Index(m, 1, 2) - Matrix3Index(m, 2, 1),
              Matrix3Index(m, 2, 0) - Matrix3Index(m, 0, 2),
              Matrix3Index(m, 0, 1) - Matrix3Index(m, 1, 0)>>
        ELSE IF b = "x" THEN
            <<Matrix3Index(m, 1, 0) + Matrix3Index(m, 0, 1),
              Matrix3Index(m, 0, 2) + Matrix3Index(m, 2, 0),
              Matrix3Index(m, 2, 1) - Matrix3Index(m, 1, 2)>>
        ELSE IF b = "y" THEN
            <<Matrix3Index(m, 1, 0) + Matrix3Index(m, 0, 1),
              Matrix3Index(m, 2, 1) + Matrix3Index(m, 1, 2),
              Matrix3Index(m, 0, 2) - Matrix3Index(m, 2, 0)>>
        ELSE
            <<Matrix3Index(m, 0, 2) + Matrix3Index(m, 2, 0),
              Matrix3Index(m, 2, 1) + Matrix3Index(m, 1, 2),
              Matrix3Index(m, 1, 0) - Matrix3Index(m, 0, 1)>>

\* the three differences and sums the branch multiplies by f, in the order the
\* code assigns them
QuarternionSetRotationMatrixTerms(m) ==
    LET b == QuarternionSetRotationMatrixBranch(m)
    IN  IF b = "w" THEN
            <<Matrix3Index(m, 2, 1) - Matrix3Index(m, 1, 2),
              Matrix3Index(m, 0, 2) - Matrix3Index(m, 2, 0),
              Matrix3Index(m, 1, 0) - Matrix3Index(m, 0, 1)>>
        ELSE IF b = "x" THEN
            <<Matrix3Index(m, 1, 0) + Matrix3Index(m, 0, 1),
              Matrix3Index(m, 0, 2) + Matrix3Index(m, 2, 0),
              Matrix3Index(m, 2, 1) - Matrix3Index(m, 1, 2)>>
        ELSE IF b = "y" THEN
            <<Matrix3Index(m, 1, 0) + Matrix3Index(m, 0, 1),
              Matrix3Index(m, 2, 1) + Matrix3Index(m, 1, 2),
              Matrix3Index(m, 0, 2) - Matrix3Index(m, 2, 0)>>
        ELSE
            <<Matrix3Index(m, 0, 2) + Matrix3Index(m, 2, 0),
              Matrix3Index(m, 2, 1) + Matrix3Index(m, 1, 2),
              Matrix3Index(m, 1, 0) - Matrix3Index(m, 0, 1)>>

\* the square root and the divisions of the branch are exact
QuarternionSetRotationMatrixExact(m, den) ==
    LET r == QuarternionSetRotationMatrixRadicand(m, den)
        t == QuarternionSetRotationMatrixTerms(m)
    IN  /\ IsSquare(r)
        /\ Sqrt(r) % 2 = 0
        /\ Sqrt(r) # 0
        /\ \A k \in 1..3 : t[k] % (2 * Sqrt(r)) = 0

QuarternionSetRotationMatrix(m, den) ==
    LET b == QuarternionSetRotationMatrixBranch(m)
        t == QuarternionSetRotationMatrixTerms(m)
        pivot == Sqrt(QuarternionSetRotationMatrixRadicand(m, den)) \div 2
        F(d) == d \div (4 * pivot)
    IN  IF b = "w" THEN QuarternionNew(F(t[1]), F(t[2]), F(t[3]), pivot)
        ELSE IF b = "x" THEN QuarternionNew(pivot, F(t[1]), F(t[2]), F(t[3]))
        ELSE IF b = "y" THEN QuarternionNew(F(t[1]), pivot, F(t[2]), F(t[3]))
        ELSE QuarternionNew(F(t[1]), F(t[2]), pivot, F(t[3]))

QuarternionTransform(self, v) ==
    LET b == QuarternionGetVectorPart(self)
        b2 == b.x * b.x + b.y * b.y + b.z * b.z
    IN  Vector3Add(
            Vector3Add(Vector3MulScalar(v, self.w * self.w - b2),
                       Vector3MulScalar(b, Vector3Dot(v, b) * 2)),
            Vector3MulScalar(Vector3Cross(b, v), self.w * 2))

(***************************************************************************)
(* line_line_distance (point3.rs).  Its intermediate values leave the      *)
(* finite range, and the sign of an infinity decides what a sum of two     *)
(* gives: here an infinity is [kind |-> "inf", val |-> 1 or -1].           *)
(***************************************************************************)
\* e1 * e2: 0 * inf is NaN
F32Mul(e1, e2) ==
    IF e1.kind = "nan" \/ e2.kind = "nan" THEN NaN
    ELSE IF IsFinite(e1) /\ IsFinite(e2) THEN Finite(e1.val * e2.val)
    ELSE IF e1.val = 0 \/ e2.val = 0 THEN NaN
    ELSE [kind |-> "inf", val |-> IF (e1.val < 0) = (e2.val < 0) THEN 1 ELSE 0 - 1]

\* e1 + e2: inf + (-inf) is NaN
F32Add(e1, e2) ==
    IF e1.kind = "nan" \/ e2.kind = "nan" THEN NaN
    ELSE IF IsFinite(e1) /\ IsFinite(e2) THEN Finite(e1.val + e2.val)
    ELSE IF IsFinite(e1) THEN e2
    ELSE IF IsFinite(e2) \/ e1.val = e2.val THEN e1
    ELSE NaN

\* f32::sqrt, on the perfect squares among the finite values
F32Sqrt(e) ==
    IF IsFinite(e) THEN (IF e.val < 0 THEN NaN ELSE Finite(Sqrt(e.val)))
    ELSE IF e.kind = "inf" /\ e.val < 0 THEN NaN ELSE e

\* impl Sub for Point3
Point3Sub(self, other) == Vector3New(self.x - other.x, self.y - other.y, self.z - other.z)

\* the branch line_line_distance takes and the value it passes to the square
\* root: the sum of squares in magnitude() (vector3.rs, which leaves z out) in
\* the first branch, a.dot(&a) / v12 in the second.  det is a difference of two
\* equal products when it is zero, which is +0.0, so that 1.0 / det is +inf.
LineLineDistanceRadicand(p1, v1, p2, v2) ==
    LET dp == Point3Sub(p2, p1)
        v12 == Vector3Dot(v1, v1)
        v22 == Vector3Dot(v2, v2)
        v1v2 == Vector3Dot(v1, v2)
        det == v1v2 * v1v2 - v12 * v22
    IN  IF Abs(det) > F32_MIN
        THEN LET inv == IF det = 0 THEN [kind |-> "inf", val |-> 1] ELSE Finite(Recip(det))
                 dpv1 == Vector3Dot(dp, v1)
                 dpv2 == Vector3Dot(dp, v2)
                 t1 == F32Mul(Finite(v1v2 * dpv2 - v22 * dpv1), inv)
                 t2 == F32Mul(Finite(v12 * dpv2 - v1v2 * dpv1), inv)
                 x == F32Add(F32Add(Finite(dp.x), F32Mul(Finite(v2.x), t2)),
                             F32Mul(Finite(0 - v1.x), t1))
                 y == F32Add(F32Add(Finite(dp.y), F32Mul(Finite(v2.y), t2)),
                             F32Mul(Finite(0 - v1.y), t1))
             IN  [branch |-> "skew", radicand |-> F32Add(F32Mul(x, x), F32Mul(y, y))]
        ELSE LET a == Vector3Cross(dp, v1)
             IN  [branch |-> "parallel", radicand |-> F32Div(Vector3Dot(a, a), v12)]

\* the arguments the model computes the distance of exactly
LineLineDistanceExact(p1, v1, p2, v2) ==
    LET v1v2 == Vector3Dot(v1, v2)
        det == v1v2 * v1v2 - Vector3Dot(v1, v1) * Vector3Dot(v2, v2)
    IN  IF det = 0 THEN TRUE
        ELSE IF ExactDivisor(det)
        THEN IsSquare(LineLineDistanceRadicand(p1, v1, p2, v2).radicand.val)
        ELSE FALSE

LineLineDistance(p1, v1, p2, v2) ==
    LET r == LineLineDistanceRadicand(p1, v1, p2, v2)
    IN  [branch |-> r.branch, value |-> F32Sqrt(r.radicand)]

(***************************************************************************)
(* The arguments the client draws.  A matrix is given by the argument list *)
(* of its constructor new, in the order the constructor takes it.          *)
(***************************************************************************)
\* base, base + step, base + 2 * step, ... : all entries differ when step # 0
RampArgs(len, base, step) == [k \in 1..len |-> base + step * (k - 1)]

\* the n x n matrix diag(d) + v * E(i, j), listed row by row
DiagOffArgs(n, d, v, i, j) ==
    [k \in 1..(n * n) |->
        LET r == (k - 1) \div n
            c == (k - 1) % n
        IN  IF r = c THEN d[r] ELSE IF r = i /\ c = j THEN v ELSE 0]

SquareArgs(n) ==
    {RampArgs(n * n, base, step) : base \in SmallVals, step \in SmallVals}
        \cup {DiagOffArgs(n, d, v, i, j) :
                d \in [0..(n - 1) -> SmallVals], v \in SmallVals,
                i \in 0..(n - 1), j \in 0..(n - 1)}

\* the ramps and the elementary matrices I + v * E(i, j)
PairArgs(n) ==
    {RampArgs(n * n, base, step) : base \in SmallVals, step \in SmallVals}
        \cup {DiagOffArgs(n, [r \in 0..(n - 1) |-> 1], v, i, j) :
                v \in SmallVals, i \in 0..(n - 1), j \in 0..(n - 1)}

Args2 == [1..4 -> Vals]
Small2 == [1..4 -> SmallVals]
Args3 == SquareArgs(3)
Pair3 == PairArgs(3)
Args4 == SquareArgs(4)
Pair4 == PairArgs(4)

Vec3s == {Vector3New(x, y, z) : x \in SmallVals, y \in SmallVals, z \in SmallVals}
RampVec3s == {Vector3New(b, b + s, b + 2 * s) : b \in SmallVals, s \in SmallVals}

\* a 3x3 linear block with a translation column, and the ramps of 12 entries
Transform4Args ==
    {<<l[1], l[2], l[3], p.x, l[4], l[5], l[6], p.y, l[7], l[8], l[9], p.z>> :
        l \in Args3, p \in {Vector3New(b, b + 1, b + 2) : b \in SmallVals}}
        \cup {RampArgs(12, base, step) : base \in SmallVals, step \in SmallVals}

\* the left operands of a product: a ramp or an elementary matrix as the linear
\* block, with no translation or the translation (1, 2, 3)
Transform4Lefts ==
    {Transform4New(l[1], l[2], l[3], t[1], l[4], l[5], l[6], t[2], l[7], l[8], l[9], t[3]) :
        l \in Pair3, t \in {<<0, 0, 0>>, <<1, 2, 3>>}}
\* the right operands: the ramps of twelve entries and the translations
Transform4Rights ==
    {Transform4New(base, base + step, base + 2 * step, base + 3 * step,
                   base + 4 * step, base + 5 * step, base + 6 * step, base + 7 * step,
                   base + 8 * step, base + 9 * step, base + 10 * step, base + 11 * step) :
        base \in SmallVals, step \in SmallVals}
        \cup {Transform4MakeTranslation(v) : v \in RampVec3s}

\* the angles, by cosine and sine: the quarter turns (1, 0), (0, 1), (-1, 0),
\* (0, -1) among them
Angles == [cos : SmallVals, sin : SmallVals]

Indices == 0..MaxIndex

Quarternions ==
    {QuarternionNew(x, y, z, w) :
        x \in SmallVals, y \in SmallVals, z \in SmallVals, w \in SmallVals}

\* the unit quaternions (x, y, z, w) / Den
DenVals == (0 - Den)..Den
UnitQuarternions ==
    {q \in [x : DenVals, y : DenVals, z : DenVals, w : DenVals] :
        q.x * q.x + q.y * q.y + q.z * q.z + q.w * q.w = Den * Den}

Planes == {PlaneNew(n.x, n.y, n.z, w) : n \in RampVec3s, w \in SmallVals}

\* the points a line is given by
LinePoints == {Point3New(b, b + 1, b + 2) : b \in SmallVals}
\* the coordinate planes x = 0, y = 0, z = 0
AxisPlanes == {PlaneNew(1, 0, 0, 0), PlaneNew(0, 1, 0, 0), PlaneNew(0, 0, 1, 0)}
\* the point a caller passes in for the result
Origin == [x |-> Finite(0), y |-> Finite(0), z |-> Finite(0)]

\* one of q and -q for the unit quaternions off the plane w = 0, and those on it
RightUnitQuarternions == {q \in UnitQuarternions : q.w >= 0 /\ (q.w = 0 => q.x >= 0)}

\* the lines, by a direction and a moment
Lines == {LineNew(d.x, d.y, d.z, b, b + 1, b + 2) : d \in RampVec3s, b \in SmallVals}

\* the scalars a matrix is scaled by: the powers of two, of either sign
Scalars == {s \in Vals : \E k \in 0..MaxVal : Abs(s) = 2 ^ k}

\* the direction of the second line: a multiple of the first, or an axis
SecondDirections(v1) ==
    {Vector3MulScalar(v1, k) : k \in SmallVals}
        \cup {Vector3New(1, 0, 0), Vector3New(0, 1, 0), Vector3New(0, 0, 1)}

Matrix2FromArgs(t) == Matrix2New(t[1], t[2], t[3], t[4])
Matrix3FromArgs(t) == Matrix3New(t[1], t[2], t[3], t[4], t[5], t[6], t[7], t[8], t[9])
Matrix4FromArgs(t) ==
    Matrix4New(t[1], t[2], t[3], t[4], t[5], t[6], t[7], t[8],
               t[9], t[10], t[11], t[12], t[13], t[14], t[15], t[16])
Transform4FromArgs(t) ==
    Transform4New(t[1], t[2], t[3], t[4], t[5], t[6], t[7], t[8], t[9], t[10], t[11], t[12])

(***************************************************************************)
(* The client: one call, then back to idle.                                *)
(***************************************************************************)
Init ==
    /\ pc = "idle"
    /\ op = "none"
    /\ args = <<>>
    /\ out = <<>>

Call(name, a, r) ==
    /\ pc' = "done"
    /\ op' = name
    /\ args' = a
    /\ out' = r

Return ==
    /\ pc = "done"
    /\ pc' = "idle"
    /\ op' = "none"
    /\ args' = <<>>
    /\ out' = <<>>

\* Matrix2::new(n00, n01, n10, n11)
CallMatrix2New ==
    /\ pc = "idle"
    /\ \E t \in Args2 : Call("Matrix2::new", t, Matrix2FromArgs(t))

\* self.set(n00, n01, n10, n11)
CallMatrix2Set ==
    /\ pc = "idle"
    /\ \E self \in {Matrix2Default, Matrix2New(1, 2, 3, 4)}, t \in Args2 :
        Call("Matrix2::set", <<self, t>>, Matrix2Set(self, t[1], t[2], t[3], t[4]))

\* Matrix2::new(a, b, c, d).determinant()
CallMatrix2Determinant ==
    /\ pc = "idle"
    /\ \E t \in Args2 :
        Call("Matrix2::determinant", t, Matrix2Determinant(Matrix2FromArgs(t)))

\* m.inverse(), for the matrices whose inverse the f32 arithmetic gives exactly
CallMatrix2Inverse ==
    /\ pc = "idle"
    /\ \E t \in Args2 :
        LET m == Matrix2FromArgs(t) IN
        /\ ExactDivisor(Matrix2Determinant(m))
        /\ Call("Matrix2::inverse", m, Matrix2Inverse(m))

\* m.transpose()
CallMatrix2Transpose ==
    /\ pc = "idle"
    /\ \E t \in Args2 :
        LET m == Matrix2FromArgs(t) IN
        Call("Matrix2::transpose", m, Matrix2Transpose(m))

\* a * b
CallMatrix2Mul ==
    /\ pc = "idle"
    /\ \E s \in Small2, t \in PairArgs(2) :
        LET a == Matrix2FromArgs(s)
            b == Matrix2FromArgs(t)
        IN  Call("Matrix2::mul", <<a, b>>, Matrix2Mul(a, b))

\* Matrix3::new(a, b, c, d, e, f, g, h, i)
CallMatrix3New ==
    /\ pc = "idle"
    /\ \E t \in Args3 : Call("Matrix3::new", t, Matrix3FromArgs(t))

\* self.set(n00, ..., n22)
CallMatrix3Set ==
    /\ pc = "idle"
    /\ \E self \in {Matrix3Default, Matrix3New(1, 2, 3, 4, 5, 6, 7, 8, 9)}, t \in Args3 :
        Call("Matrix3::set", <<self, t>>,
             Matrix3Set(self, t[1], t[2], t[3], t[4], t[5], t[6], t[7], t[8], t[9]))

\* m.determinant()
CallMatrix3Determinant ==
    /\ pc = "idle"
    /\ \E t \in Args3 :
        LET m == Matrix3FromArgs(t) IN
        Call("Matrix3::determinant", m, Matrix3Determinant(m))

\* m.inverse(), for the matrices whose divisor has an exact reciprocal
CallMatrix3Inverse ==
    /\ pc = "idle"
    /\ \E t \in Args3 :
        LET m == Matrix3FromArgs(t) IN
        /\ ExactDivisor(Matrix3InverseDivisor(m))
        /\ Call("Matrix3::inverse", m, Matrix3Inverse(m))

\* m.transpose()
CallMatrix3Transpose ==
    /\ pc = "idle"
    /\ \E t \in Args3 :
        LET m == Matrix3FromArgs(t) IN
        Call("Matrix3::transpose", m, Matrix3Transpose(m))

\* m * v
CallMatrix3MulVector3 ==
    /\ pc = "idle"
    /\ \E t \in Args3, v \in Vec3s :
        LET m == Matrix3FromArgs(t) IN
        Call("Matrix3::mul_vector3", <<m, v>>, Matrix3MulVector3(m, v))

\* Matrix3::identity() * v
CallMatrix3IdentityMulVector3 ==
    /\ pc = "idle"
    /\ \E v \in Vec3s :
        Call("Matrix3::identity*v", v, Matrix3MulVector3(Matrix3Identity, v))

\* a * b
CallMatrix3Mul ==
    /\ pc = "idle"
    /\ \E s \in Pair3, t \in Pair3 :
        LET a == Matrix3FromArgs(s)
            b == Matrix3FromArgs(t)
        IN  Call("Matrix3::mul", <<a, b>>, Matrix3Mul(a, b))

\* Matrix4::new(a, ..., p)
CallMatrix4New ==
    /\ pc = "idle"
    /\ \E t \in Args4 : Call("Matrix4::new", t, Matrix4FromArgs(t))

\* m.inverse(), for the matrices whose divisor has an exact reciprocal
CallMatrix4Inverse ==
    /\ pc = "idle"
    /\ \E t \in Args4 :
        LET m == Matrix4FromArgs(t) IN
        /\ ExactDivisor(Matrix4InverseDivisor(m))
        /\ Call("Matrix4::inverse", m, Matrix4Inverse(m))

\* m.transpose()
CallMatrix4Transpose ==
    /\ pc = "idle"
    /\ \E t \in Args4 :
        LET m == Matrix4FromArgs(t) IN
        Call("Matrix4::transpose", m, Matrix4Transpose(m))

\* a * b
CallMatrix4Mul ==
    /\ pc = "idle"
    /\ \E s \in Pair4, t \in Pair4 :
        LET a == Matrix4FromArgs(s)
            b == Matrix4FromArgs(t)
        IN  Call("Matrix4::mul", <<a, b>>, Matrix4Mul(a, b))

\* Transform4::new(a, ..., l)
CallTransform4New ==
    /\ pc = "idle"
    /\ \E t \in Transform4Args : Call("Transform4::new", t, Transform4FromArgs(t))

\* h.inverse(), for the transforms whose divisor has an exact reciprocal
CallTransform4Inverse ==
    /\ pc = "idle"
    /\ \E t \in Transform4Args :
        LET h == Transform4FromArgs(t) IN
        /\ ExactDivisor(Transform4InverseDivisor(h))
        /\ Call("Transform4::inverse", h, Transform4Inverse(h))

\* q.transform(&v)
CallQuarternionTransform ==
    /\ pc = "idle"
    /\ \E q \in Quarternions, v \in RampVec3s :
        Call("Quarternion::transform", <<q, v>>, QuarternionTransform(q, v))

\* q1 * q2, on unit quaternions; the product has its numerators over Den * Den
CallQuarternionMul ==
    /\ pc = "idle"
    /\ \E q1 \in RightUnitQuarternions, q2 \in RightUnitQuarternions :
        Call("Quarternion::mul", <<q1, q2>>, QuarternionMul(q1, q2))

\* q2.set_rotation_matrix(&m) with m = q.get_rotation_matrix(), q a unit quaternion
CallQuarternionSetRotationMatrix ==
    /\ pc = "idle"
    /\ \E q \in UnitQuarternions :
        LET m == QuarternionGetRotationMatrixIn(q, Den * Den)
        IN  /\ QuarternionSetRotationMatrixExact(m, Den)
            /\ Call("Quarternion::set_rotation_matrix", <<q, m>>,
                    QuarternionSetRotationMatrix(m, Den))

\* q.get_rotation_matrix()
CallQuarternionGetRotationMatrix ==
    /\ pc = "idle"
    /\ \E q \in Quarternions :
        Call("Quarternion::get_rotation_matrix", q, QuarternionGetRotationMatrix(q))

\* plane_line_intersect(&p, &v, &f)
CallPlaneLineIntersect ==
    /\ pc = "idle"
    /\ \E p \in LinePoints, v \in RampVec3s, f \in Planes :
        /\ F32DivExact(PlanePointDot(f, p), PlaneVecDot(f, v))
        /\ Call("plane_line_intersect", <<p, v, f>>, PlaneLineIntersect(p, v, f))

\* three_planes_intersect(&f1, &f2, &f3, p): f2 is f1 or a coordinate plane
CallThreePlanesIntersect ==
    /\ pc = "idle"
    /\ \E f1 \in Planes, f3 \in Planes :
        \E f2 \in {f1} \cup AxisPlanes :
            /\ Vector3DivExact(ThreePlanesNumerator(f1, f2, f3), ThreePlanesDet(f1, f2, f3))
            /\ Call("three_planes_intersect", <<f1, f2, f3>>,
                    ThreePlanesIntersect(f1, f2, f3, Origin))

\* two_planes_intersect(&f1, &f2, p, v)
CallTwoPlanesIntersect ==
    /\ pc = "idle"
    /\ \E f1 \in Planes \cup AxisPlanes, f2 \in Planes \cup AxisPlanes :
        /\ Vector3DivExact(TwoPlanesNumerator(f1, f2), TwoPlanesDet(f1, f2))
        /\ Call("two_planes_intersect", <<f1, f2>>, TwoPlanesIntersect(f1, f2, Origin))

\* a * b for Transform4
CallTransform4Mul ==
    /\ pc = "idle"
    /\ \E a \in Transform4Lefts, b \in Transform4Rights :
        Call("Transform4::mul", <<a, b>>, Transform4Mul(a, b))

\* t.get_translation()
CallTransform4GetTranslation ==
    /\ pc = "idle"
    /\ \E t \in Transform4Lefts \cup Transform4Rights :
        Call("Transform4::get_translation", t, Transform4GetTranslation(t))

\* t.set_translation(&p); out is t afterwards
CallTransform4SetTranslation ==
    /\ pc = "idle"
    /\ \E t \in Transform4Rights, p \in Vec3s :
        Call("Transform4::set_translation", <<t, p>>, Transform4SetTranslation(t, p))

\* t * p for a Point3 p
CallTransform4MulPoint3 ==
    /\ pc = "idle"
    /\ \E t \in Transform4Lefts \cup Transform4Rights, p \in Vec3s :
        Call("Transform4::mul_point3", <<t, p>>, Transform4MulPoint3(t, p))

\* t * v for a Vector3 v
CallTransform4MulVector3 ==
    /\ pc = "idle"
    /\ \E t \in Transform4Lefts \cup Transform4Rights, v \in Vec3s :
        Call("Transform4::mul_vector3", <<t, v>>, Transform4MulVector3(t, v))

\* Transform4::make_rotation_z(angle) * v
CallTransform4MakeRotationZ ==
    /\ pc = "idle"
    /\ \E angle \in Angles, v \in Vec3s :
        Call("Transform4::make_rotation_z*v", <<angle, v>>,
             Transform4MulVector3(Transform4MakeRotationZ(angle), v))

\* m[(row, col)] and m[(row, col)] = val, on a matrix of each size
CallMatrix2Index ==
    /\ pc = "idle"
    /\ \E row \in Indices, col \in Indices :
        LET m == Matrix2New(1, 2, 3, 4)
        IN  Call("Matrix2::index", <<m, row, col>>, Matrix2IndexChecked(m, row, col))

CallMatrix2IndexMut ==
    /\ pc = "idle"
    /\ \E row \in Indices, col \in Indices, val \in SmallVals :
        LET m == Matrix2New(1, 2, 3, 4)
        IN  Call("Matrix2::index_mut", <<m, row, col, val>>,
                 Matrix2IndexMutChecked(m, row, col, val))

CallMatrix3Index ==
    /\ pc = "idle"
    /\ \E row \in Indices, col \in Indices :
        LET m == Matrix3New(1, 2, 3, 4, 5, 6, 7, 8, 9)
        IN  Call("Matrix3::index", <<m, row, col>>, Matrix3IndexChecked(m, row, col))

CallMatrix3IndexMut ==
    /\ pc = "idle"
    /\ \E row \in Indices, col \in Indices, val \in SmallVals :
        LET m == Matrix3New(1, 2, 3, 4, 5, 6, 7, 8, 9)
        IN  Call("Matrix3::index_mut", <<m, row, col, val>>,
                 Matrix3IndexMutChecked(m, row, col, val))

CallMatrix4Index ==
    /\ pc = "idle"
    /\ \E row \in Indices, col \in Indices :
        LET m == Matrix4New(1, 2, 3, 4, 5, 6, 7, 8, 9, 10, 11, 12, 13, 14, 15, 16)
        IN  Call("Matrix4::index", <<m, row, col>>, Matrix4IndexChecked(m, row, col))

CallMatrix4IndexMut ==
    /\ pc = "idle"
    /\ \E row \in Indices, col \in Indices, val \in SmallVals :
        LET m == Matrix4New(1, 2, 3, 4, 5, 6, 7, 8, 9, 10, 11, 12, 13, 14, 15, 16)
        IN  Call("Matrix4::index_mut", <<m, row, col, val>>,
                 Matrix4IndexMutChecked(m, row, col, val))

\* Transform4::new_with_vecs(&a, &b, &c, &p)
CallTransform4NewWithVecs ==
    /\ pc = "idle"
    /\ \E a \in RampVec3s, p \in RampVec3s :
        LET b == Vector3New(0, 1, 0)
            c == Vector3New(0, 0, 1)
        IN  Call("Transform4::new_with_vecs", <<a, b, c, p>>,
                 Transform4NewWithVecs(a, b, c, p))

\* l.transform(&h), and l after l.transform_mut(&h)
CallLineTransform ==
    /\ pc = "idle"
    /\ \E l \in Lines, h \in Transform4Rights :
        Call("Line::transform", <<l, h>>,
             [ret |-> LineTransform(l, h), self |-> LineTransformMut(l, h)])

\* a.cross(&b)
CallVector3Cross ==
    /\ pc = "idle"
    /\ \E a \in Vec3s, b \in Vec3s : Call("Vector3::cross", <<a, b>>, Vector3Cross(a, b))

\* a *= b for a matrix, transform or quaternion a; out is a afterwards
CallMulAssign ==
    /\ pc = "idle"
    /\ \/ \E a \in Small2, base \in SmallVals, step \in SmallVals :
            LET m == Matrix2FromArgs(a)
                other == Matrix2FromArgs(RampArgs(4, base, step))
            IN  Call("Matrix2::mul_assign", <<m, other>>, Matrix2MulAssign(m, other))
       \/ \E a \in Pair3, base \in SmallVals, step \in SmallVals :
            LET m == Matrix3FromArgs(a)
                other == Matrix3FromArgs(RampArgs(9, base, step))
            IN  Call("Matrix3::mul_assign", <<m, other>>, Matrix3MulAssign(m, other))
       \/ \E a \in Pair4, base \in SmallVals, step \in SmallVals :
            LET m == Matrix4FromArgs(a)
                other == Matrix4FromArgs(RampArgs(16, base, step))
            IN  Call("Matrix4::mul_assign", <<m, other>>, Matrix4MulAssign(m, other))
       \/ \E a \in Transform4Lefts, b \in Transform4Rights :
            Call("Transform4::mul_assign", <<a, b>>, Transform4MulAssign(a, b))
       \/ \E q \in Quarternions, base \in SmallVals, step \in SmallVals :
            LET rhs == QuarternionNew(base, base + step, base + 2 * step, base + 3 * step)
            IN  Call("Quarternion::mul_assign", <<q, rhs>>, QuarternionMulAssign(q, rhs))

\* with ms = m * s: ms / s, and ms after ms /= s
CallMatrix4DivScalar ==
    /\ pc = "idle"
    /\ \E a \in Pair4, s \in Scalars :
        LET m == Matrix4FromArgs(a)
            ms == Matrix4MulScalar(m, s)
        IN  /\ Matrix4DivAssignExact(ms, s)
            /\ Call("Matrix4::div", <<m, s, ms>>,
                    [div |-> Matrix4DivScalar(ms, s), div_assign |-> Matrix4DivAssign(ms, s)])

\* Matrix2::make_rotation(a)
CallMatrix2MakeRotation ==
    /\ pc = "idle"
    /\ \E a \in Angles : Call("Matrix2::make_rotation", a, Matrix2MakeRotation(a))

\* line_line_distance(&p1, &v1, &p2, &v2), p1 the origin
CallLineLineDistance ==
    /\ pc = "idle"
    /\ \E v1 \in Vec3s, p2 \in RampVec3s :
        \E v2 \in SecondDirections(v1) :
            LET p1 == Point3New(0, 0, 0)
            IN  /\ LineLineDistanceExact(p1, v1, p2, v2)
                /\ Call("line_line_distance", <<p1, v1, p2, v2>>,
                        LineLineDistance(p1, v1, p2, v2))

\* f * h for a Plane f
CallPlaneMulTransform4 ==
    /\ pc = "idle"
    /\ \E f \in Planes, h \in Transform4Rights :
        Call("Plane::mul_transform4", <<f, h>>, PlaneMulTransform4(f, h))

Next ==
    \/ CallMatrix2New
    \/ CallMatrix2Set
    \/ CallMatrix2Determinant
    \/ CallMatrix2Inverse
    \/ CallMatrix2Transpose
    \/ CallMatrix2Mul
    \/ CallMatrix3New
    \/ CallMatrix3Set
    \/ CallMatrix3Determinant
    \/ CallMatrix3Inverse
    \/ CallMatrix3Transpose
    \/ CallMatrix3MulVector3
    \/ CallMatrix3IdentityMulVector3
    \/ CallMatrix3Mul
    \/ CallMatrix4New
    \/ CallMatrix4Inverse
    \/ CallMatrix4Transpose
    \/ CallMatrix4Mul
    \/ CallTransform4New
    \/ CallTransform4Inverse
    \/ CallQuarternionTransform
    \/ CallQuarternionMul
    \/ CallQuarternionSetRotationMatrix
    \/ CallQuarternionGetRotationMatrix
    \/ CallPlaneLineIntersect
    \/ CallThreePlanesIntersect
    \/ CallTwoPlanesIntersect
    \/ CallTransform4Mul
    \/ CallTransform4GetTranslation
    \/ CallTransform4SetTranslation
    \/ CallTransform4MulPoint3
    \/ CallTransform4MulVector3
    \/ CallTransform4MakeRotationZ
    \/ CallMatrix2Index
    \/ CallMatrix2IndexMut
    \/ CallMatrix3Index
    \/ CallMatrix3IndexMut
    \/ CallMatrix4Index
    \/ CallMatrix4IndexMut
    \/ CallTransform4NewWithVecs
    \/ CallLineTransform
    \/ CallVector3Cross
    \/ CallMulAssign
    \/ CallMatrix4DivScalar
    \/ CallMatrix2MakeRotation
    \/ CallLineLineDistance
    \/ CallPlaneMulTransform4
    \/ Return

Spec == Init /\ [][Next]_vars

(***************************************************************************)
(* Reference linear algebra, used only to state the properties.  A grid is *)
(* a matrix as the mathematics reads it: g[i][j] is the entry in row i and *)
(* column j.  The grid of a library matrix is read through its (row, col)  *)
(* index operator.                                                         *)
(***************************************************************************)
Grid2(m) == [i \in 0..1 |-> [j \in 0..1 |-> Matrix2Index(m, i, j)]]
Grid3(m) == [i \in 0..2 |-> [j \in 0..2 |-> Matrix3Index(m, i, j)]]
Grid4(m) == [i \in 0..3 |-> [j \in 0..3 |-> Matrix4Index(m, i, j)]]

\* the linear block (rows 0-2, columns 0-2) and the translation (column 3) of a transform
LinearGrid(h) == [i \in 0..2 |-> [j \in 0..2 |-> Transform4Index(h, i, j)]]
TranslationOf(h) == [i \in 0..2 |-> Transform4Index(h, i, 3)]

\* a Vector3 or Point3 as a column
Col3(v) == [i \in 0..2 |-> Vector3Index(v, i)]

RECURSIVE RefSum(_, _)
\* f[0] + ... + f[n - 1]
RefSum(f, n) == IF n = 0 THEN 0 ELSE RefSum(f, n - 1) + f[n - 1]

RefIdentity(n) == [i \in 0..(n - 1) |-> [j \in 0..(n - 1) |-> IF i = j THEN 1 ELSE 0]]

\* entry (i, j) is the dot product of row i of a with column j of b
RefMul(n, a, b) ==
    [i \in 0..(n - 1) |-> [j \in 0..(n - 1) |->
        RefSum([k \in 0..(n - 1) |-> a[i][k] * b[k][j]], n)]]

RefMulCol(n, a, v) == [i \in 0..(n - 1) |-> RefSum([k \in 0..(n - 1) |-> a[i][k] * v[k]], n)]

RefTranspose(n, a) == [i \in 0..(n - 1) |-> [j \in 0..(n - 1) |-> a[j][i]]]

\* a without row 0 and column c
RefMinor(n, a, c) ==
    [i \in 0..(n - 2) |-> [j \in 0..(n - 2) |-> a[i + 1][IF j < c THEN j ELSE j + 1]]]

RECURSIVE RefDet(_, _)
\* cofactor expansion along row 0
RefDet(n, a) ==
    IF n = 1 THEN a[0][0]
    ELSE RefSum([c \in 0..(n - 1) |->
                    (IF c % 2 = 0 THEN 1 ELSE 0 - 1) * a[0][c] * RefDet(n - 1, RefMinor(n, a, c))],
                n)

\* the cross product, and the normal (x, y, z) of a plane
RefCross(a, b) ==
    [x |-> a.y * b.z - a.z * b.y, y |-> a.z * b.x - a.x * b.z, z |-> a.x * b.y - a.y * b.x]
RefNormal(f) == [x |-> f.x, y |-> f.y, z |-> f.z]

Done(name) == pc = "done" /\ op = name

(***************************************************************************)
(* Properties                                                              *)
(***************************************************************************)
\* C1, for Matrix2: m * m.inverse() is the 2x2 identity when m is non-singular.
C1_Matrix2 ==
    Done("Matrix2::inverse") /\ RefDet(2, Grid2(args)) # 0
        => Grid2(Matrix2Mul(args, out)) = RefIdentity(2)

\* C1, for Matrix3: m * m.inverse() is the 3x3 identity when m is non-singular.
C1_Matrix3 ==
    Done("Matrix3::inverse") /\ RefDet(3, Grid3(args)) # 0
        => Grid3(Matrix3Mul(args, out)) = RefIdentity(3)

\* C1, for Matrix4: m * m.inverse() is the 4x4 identity when m is non-singular.
C1_Matrix4 ==
    Done("Matrix4::inverse") /\ RefDet(4, Grid4(args)) # 0
        => Grid4(Matrix4Mul(args, out)) = RefIdentity(4)

\* C1: for every non-singular matrix M of type Matrix2, Matrix3 or Matrix4,
\* M * M.inverse() equals the identity matrix of that size, entry for entry.
C1_MulInverseIsIdentity == C1_Matrix2 /\ C1_Matrix3 /\ C1_Matrix4

\* C2, first part: the linear block of T.inverse() is the inverse of T's linear block.
C2_LinearBlock ==
    Done("Transform4::inverse") /\ RefDet(3, LinearGrid(args)) # 0
        => RefMul(3, LinearGrid(args), LinearGrid(out)) = RefIdentity(3)

\* C2, second part: the translation of T.inverse() is -(linear block of T.inverse()) * t.
C2_Translation ==
    Done("Transform4::inverse") /\ RefDet(3, LinearGrid(args)) # 0
        => \A i \in 0..2 :
             TranslationOf(out)[i]
                 = 0 - RefMulCol(3, LinearGrid(out), TranslationOf(args))[i]

\* C2, consequence: T.inverse() * (T * p) == p for every point p.
C2_RoundTrip ==
    Done("Transform4::inverse") /\ RefDet(3, LinearGrid(args)) # 0
        => \A p \in Vec3s : Transform4MulPoint3(out, Transform4MulPoint3(args, p)) = p

\* C2: for every Transform4 T with an invertible linear block, T.inverse() has the
\* inverse linear block and the translation -(inverse linear block) * t, hence
\* T.inverse() * (T * p) == p for every Point3 p.
C2_TransformInverse == C2_LinearBlock /\ C2_Translation /\ C2_RoundTrip

\* C3, for Matrix2: entry (i, j) of a * b is row i of a dotted with column j of b.
C3_Matrix2 ==
    Done("Matrix2::mul") => Grid2(out) = RefMul(2, Grid2(args[1]), Grid2(args[2]))

\* C3, for Matrix3: entry (i, j) of a * b is row i of a dotted with column j of b.
C3_Matrix3 ==
    Done("Matrix3::mul") => Grid3(out) = RefMul(3, Grid3(args[1]), Grid3(args[2]))

\* C3, for Matrix4: entry (i, j) of a * b is row i of a dotted with column j of b.
C3_Matrix4 ==
    Done("Matrix4::mul") => Grid4(out) = RefMul(4, Grid4(args[1]), Grid4(args[2]))

\* C3, consequence for Matrix3: (r1 * r2) * v == r1 * (r2 * v) for every Vector3 v.
C3_Application ==
    Done("Matrix3::mul")
        => \A v \in Vec3s :
             Matrix3MulVector3(out, v)
                 = Matrix3MulVector3(args[1], Matrix3MulVector3(args[2], v))

\* C3: matrix x matrix multiplication for Matrix2, Matrix3 and Matrix4 is the standard
\* product, and for Matrix3 (R1 * R2) * v == R1 * (R2 * v) for every Vector3 v.
C3_MulIsStandardProduct == C3_Matrix2 /\ C3_Matrix3 /\ C3_Matrix4 /\ C3_Application

\* C4: Matrix3::identity() * v == v for every Vector3 v.
C4_IdentityMulVector == Done("Matrix3::identity*v") => out = args

\* C5, for Matrix2: (a * b).determinant() == a.determinant() * b.determinant().
C5_Matrix2 ==
    Done("Matrix2::mul")
        => Matrix2Determinant(out) = Matrix2Determinant(args[1]) * Matrix2Determinant(args[2])

\* C5, for Matrix3: (a * b).determinant() == a.determinant() * b.determinant().
C5_Matrix3 ==
    Done("Matrix3::mul")
        => Matrix3Determinant(out) = Matrix3Determinant(args[1]) * Matrix3Determinant(args[2])

\* C5: for all matrices A and B of the same type (Matrix2, Matrix3),
\* (A * B).determinant() == A.determinant() * B.determinant().
C5_DeterminantIsMultiplicative == C5_Matrix2 /\ C5_Matrix3

\* C6, first part: determinant() is the determinant by cofactor expansion.
C6_Cofactor == Done("Matrix3::determinant") => out = RefDet(3, Grid3(args))

\* C6, second part: determinant() is the triple product col2 . (col0 x col1), with
\* the cross product written out.
C6_TripleProduct ==
    Done("Matrix3::determinant")
        => LET a == Matrix3VecAt(args, 0)
               b == Matrix3VecAt(args, 1)
               c == Matrix3VecAt(args, 2)
           IN  out = c.x * (a.y * b.z - a.z * b.y)
                       + c.y * (a.z * b.x - a.x * b.z)
                       + c.z * (a.x * b.y - a.y * b.x)

\* C6, examples: a matrix with two equal columns has determinant 0.
C6_EqualColumns ==
    Done("Matrix3::determinant")
        /\ (\E i, j \in 0..2 : i # j /\ Matrix3VecAt(args, i) = Matrix3VecAt(args, j))
        => out = 0

\* C6: Matrix3::determinant() returns the 3x3 determinant of the matrix, equal to the
\* scalar triple product col2 . (col0 x col1); two equal columns give 0.
C6_Determinant3 == C6_Cofactor /\ C6_TripleProduct /\ C6_EqualColumns

\* C7: for all a, b, c, d, Matrix2::new(a, b, c, d).determinant() == a * d - b * c,
\* the arguments read row by row, [[a, b], [c, d]].
C7_Determinant2 ==
    Done("Matrix2::determinant") => out = args[1] * args[4] - args[2] * args[3]

\* Matrix2::new(1, 2, 3, 4).determinant() has returned -2.
C7_Witness == Done("Matrix2::determinant") /\ args = <<1, 2, 3, 4>> /\ out = 0 - 2

\* C8: for every matrix M of type Matrix2, Matrix3 or Matrix4, M.transpose() has
\* entry M(j, i) at (row i, col j), and M.transpose().transpose() == M.
C8_Transpose ==
    /\ Done("Matrix2::transpose")
         => /\ Grid2(out) = RefTranspose(2, Grid2(args))
            /\ Matrix2Transpose(out) = args
    /\ Done("Matrix3::transpose")
         => /\ Grid3(out) = RefTranspose(3, Grid3(args))
            /\ Matrix3Transpose(out) = args
    /\ Done("Matrix4::transpose")
         => /\ Grid4(out) = RefTranspose(4, Grid4(args))
            /\ Matrix4Transpose(out) = args

\* Matrix3::new(1, 2, 3, 4, 5, 6, 7, 8, 9).transpose() has returned the matrix
\* with rows (1, 4, 7), (2, 5, 8), (3, 6, 9).
C8_Witness ==
    /\ Done("Matrix3::transpose")
    /\ args = Matrix3New(1, 2, 3, 4, 5, 6, 7, 8, 9)
    /\ out = Matrix3New(1, 4, 7, 2, 5, 8, 3, 6, 9)

IsUnit(q) == q.x * q.x + q.y * q.y + q.z * q.z + q.w * q.w = 1

\* C10: for every unit quaternion q and every Vector3 v,
\* q.transform(v) == q.get_rotation_matrix() * v.
C10_TransformIsRotationMatrix ==
    Done("Quarternion::transform") /\ IsUnit(args[1])
        => out = Matrix3MulVector3(QuarternionGetRotationMatrix(args[1]), args[2])

\* C11: for all unit quaternions q1 and q2, (q1 * q2).get_rotation_matrix()
\* == q1.get_rotation_matrix() * q2.get_rotation_matrix(), entry for entry.  With
\* the components over Den the entries of both sides are over Den^4.
C11_MulIsMatrixComposition ==
    Done("Quarternion::mul")
        => QuarternionGetRotationMatrixIn(out, Den * Den * Den * Den)
             = Matrix3Mul(QuarternionGetRotationMatrixIn(args[1], Den * Den),
                          QuarternionGetRotationMatrixIn(args[2], Den * Den))

\* C12: for every unit quaternion q, with m = q.get_rotation_matrix(), after
\* q2.set_rotation_matrix(&m) the matrix q2.get_rotation_matrix() equals m entry for
\* entry, and q2 is q or -q, whichever branch of set_rotation_matrix is taken.
C12_RoundTrip ==
    Done("Quarternion::set_rotation_matrix")
        => /\ QuarternionGetRotationMatrixIn(out, Den * Den) = args[2]
           /\ \/ out = args[1]
              \/ out = QuarternionNew(0 - args[1].x, 0 - args[1].y, 0 - args[1].z, 0 - args[1].w)

\* The round trip has been made through the branch trace > 0 on a rotation that is
\* not the identity.
C12_Witness ==
    /\ Done("Quarternion::set_rotation_matrix")
    /\ QuarternionSetRotationMatrixBranch(args[2]) = "w"
    /\ args[1].x # 0
    /\ args[1].y # 0
    /\ QuarternionGetRotationMatrixIn(out, Den * Den) = args[2]

\* C13: for every quaternion (x, y, z, w), get_rotation_matrix() returns the
\* Matrix3 R with R(0,0) = 1-2(yy+zz), R(0,1) = 2(xy-wz), R(0,2) = 2(xz+wy),
\* R(1,0) = 2(xy+wz), R(1,1) = 1-2(xx+zz), R(1,2) = 2(yz-wx), R(2,0) = 2(xz-wy),
\* R(2,1) = 2(yz+wx), R(2,2) = 1-2(xx+yy), R(i,j) read at (row i, col j).
C13_RotationMatrixEntries ==
    Done("Quarternion::get_rotation_matrix")
        => LET x == args.x
               y == args.y
               z == args.z
               w == args.w
           IN  /\ Matrix3Index(out, 0, 0) = 1 - 2 * (y * y + z * z)
               /\ Matrix3Index(out, 0, 1) = 2 * (x * y - w * z)
               /\ Matrix3Index(out, 0, 2) = 2 * (x * z + w * y)
               /\ Matrix3Index(out, 1, 0) = 2 * (x * y + w * z)
               /\ Matrix3Index(out, 1, 1) = 1 - 2 * (x * x + z * z)
               /\ Matrix3Index(out, 1, 2) = 2 * (y * z - w * x)
               /\ Matrix3Index(out, 2, 0) = 2 * (x * z - w * y)
               /\ Matrix3Index(out, 2, 1) = 2 * (y * z + w * x)
               /\ Matrix3Index(out, 2, 2) = 1 - 2 * (x * x + y * y)
               /\ args = QuarternionNew(0, 0, 0, 1) => Grid3(out) = RefIdentity(3)

\* Quarternion::new(0, 0, 1, 0).get_rotation_matrix() has returned diag(-1, -1, 1).
C13_Witness ==
    /\ Done("Quarternion::get_rotation_matrix")
    /\ args = QuarternionNew(0, 0, 1, 0)
    /\ out = Matrix3New(0 - 1, 0, 0, 0, 0 - 1, 0, 0, 0, 1)

\* C14: plane_line_intersect(p, v, f) returns None whenever f.vec_dot(v) is zero,
\* and returns Some only of a point with finite coordinates.
C14_ParallelIsNone ==
    Done("plane_line_intersect")
        => /\ PlaneVecDot(args[3], args[2]) = 0 => out = None
           /\ out.some
                => /\ IsFinite(out.value.x)
                   /\ IsFinite(out.value.y)
                   /\ IsFinite(out.value.z)

\* C15, three planes: with two identical planes and any third plane,
\* three_planes_intersect returns false.
C15_ThreePlanes ==
    Done("three_planes_intersect") /\ args[1] = args[2] => out.ret = FALSE

\* C15, two planes: with parallel normals, two_planes_intersect returns false.
C15_TwoPlanes ==
    Done("two_planes_intersect")
        /\ RefCross(RefNormal(args[1]), RefNormal(args[2])) = Vector3New(0, 0, 0)
            => out.ret = FALSE

\* C15: the plane-plane intersection routines report no intersection for
\* degenerate inputs: three_planes_intersect on two identical planes and any third,
\* two_planes_intersect on two planes with parallel normals.
C15_DegenerateIsNone == C15_ThreePlanes /\ C15_TwoPlanes

\* C16, linear block: the linear block of A * B is A.linear * B.linear.
C16_LinearBlock ==
    Done("Transform4::mul")
        => LinearGrid(out) = RefMul(3, LinearGrid(args[1]), LinearGrid(args[2]))

\* C16, translation: the translation of A * B is A.linear * B.translation
\* + A.translation.
C16_Translation ==
    Done("Transform4::mul")
        => \A i \in 0..2 :
             TranslationOf(out)[i]
                 = RefMulCol(3, LinearGrid(args[1]), TranslationOf(args[2]))[i]
                     + TranslationOf(args[1])[i]

\* C16, on points: (A * B) * p == A * (B * p) for every Point3 p.
C16_Points ==
    Done("Transform4::mul")
        => \A p \in Vec3s :
             Transform4MulPoint3(out, p)
                 = Transform4MulPoint3(args[1], Transform4MulPoint3(args[2], p))

\* C16: for all Transform4 A and B, A * B has linear block A.linear * B.linear and
\* translation A.linear * B.translation + A.translation; equivalently
\* (A * B) * p == A * (B * p) for every Point3 p.
C16_Composition == C16_LinearBlock /\ C16_Translation /\ C16_Points

\* C17, reading: for every transform, get_translation() equals vec_at(3) as a point.
C17_GetIsColumn3 ==
    Done("Transform4::get_translation") => out = Transform4VecAt(args, 3)

\* C17, writing: set_translation(p) writes column 3 and leaves the rest.
C17_SetIsColumn3 ==
    Done("Transform4::set_translation")
        => /\ Transform4VecAt(out, 3) = args[2]
           /\ LinearGrid(out) = LinearGrid(args[1])

\* C17, round trip: after t.set_translation(p), t.get_translation() == p.
C17_SetThenGet ==
    Done("Transform4::set_translation") => Transform4GetTranslation(out) = args[2]

\* C17: get_translation and set_translation read and write column 3 of a
\* Transform4: after t.set_translation(p), t.get_translation() == p, and for every
\* transform get_translation() equals t.vec_at(3) as a point.
C17_TranslationIsColumn3 == C17_GetIsColumn3 /\ C17_SetIsColumn3 /\ C17_SetThenGet

\* C18: for every Transform4 T, Point3 p and Vector3 v, T * p == L * p + t and
\* T * v == L * v, with L the linear block and t column 3, so that T * v does not
\* depend on t; in particular make_translation(w) * p == p + w.
C18_PointsAndVectors ==
    /\ Done("Transform4::mul_point3")
         => /\ \A i \in 0..2 :
                 Col3(out)[i]
                     = RefMulCol(3, LinearGrid(args[1]), Col3(args[2]))[i]
                         + TranslationOf(args[1])[i]
            /\ \A w \in RampVec3s :
                 args[1] = Transform4MakeTranslation(w)
                     => out = Point3New(args[2].x + w.x, args[2].y + w.y, args[2].z + w.z)
    /\ Done("Transform4::mul_vector3")
         => /\ \A i \in 0..2 :
                 Col3(out)[i] = RefMulCol(3, LinearGrid(args[1]), Col3(args[2]))[i]
            /\ \A p \in Vec3s :
                 Transform4MulVector3(Transform4SetTranslation(args[1], p), args[2]) = out

\* Transform4::make_translation((1, 2, 3)) * Point3::new(0, 0, 0) has returned (1, 2, 3).
C18_Witness ==
    /\ Done("Transform4::mul_point3")
    /\ args[1] = Transform4MakeTranslation(Vector3New(1, 2, 3))
    /\ args[2] = Point3New(0, 0, 0)
    /\ out = Point3New(1, 2, 3)

\* C19: Transform4::make_rotation_z(angle) maps every Vector3 (x, y, z) to
\* (x * cos - y * sin, x * sin + y * cos, z), cos and sin those of the angle.
C19_RotationZ ==
    Done("Transform4::make_rotation_z*v")
        => LET c == Cos(args[1])
               s == Sin(args[1])
               v == args[2]
           IN  out = Vector3New(v.x * c - v.y * s, v.x * s + v.y * c, v.z)

\* The quarter turn (cos = 0, sin = 1) has mapped (1, 0, 0) to (0, 1, 0).
C19_Witness ==
    /\ Done("Transform4::make_rotation_z*v")
    /\ args[1] = [cos |-> 0, sin |-> 1]
    /\ args[2] = Vector3New(1, 0, 0)
    /\ out = Vector3New(0, 1, 0)

\* the size N of the matrix an index operation was called on
SizeOfIndexed ==
    IF op \in {"Matrix2::index", "Matrix2::index_mut"} THEN 2
    ELSE IF op \in {"Matrix3::index", "Matrix3::index_mut"} THEN 3
    ELSE 4

IndexOps ==
    {"Matrix2::index", "Matrix2::index_mut", "Matrix3::index", "Matrix3::index_mut",
     "Matrix4::index", "Matrix4::index_mut"}

\* C20: the (row, col) index operators, read and write, of Matrix2, Matrix3 and
\* Matrix4 panic whenever row >= N or col >= N (N = 2, 3, 4), row == N and
\* col == N included; an index in range reads or writes the element at (row, col).
C20_OutOfRangePanics ==
    pc = "done" /\ op \in IndexOps
        => LET m == args[1]
               row == args[2]
               col == args[3]
               N == SizeOfIndexed
           IN  /\ out.panic <=> (row >= N \/ col >= N)
               /\ ~out.panic /\ op \in {"Matrix2::index", "Matrix3::index", "Matrix4::index"}
                    => out.value = m[col][IF N = 4 THEN row ELSE <<"x", "y", "z">>[row + 1]]
               /\ ~out.panic /\ op \in {"Matrix2::index_mut", "Matrix3::index_mut",
                                          "Matrix4::index_mut"}
                    => out.value[col][IF N = 4 THEN row ELSE <<"x", "y", "z">>[row + 1]]
                         = args[4]

\* Matrix4's operator has panicked on row == 4, which its own test lets through.
C20_Witness ==
    /\ Done("Matrix4::index")
    /\ args[2] = 4
    /\ args[3] = 0
    /\ out.panic

\* the operations of the client that return or leave behind a Transform4
Transform4Ops ==
    {"Transform4::new", "Transform4::new_with_vecs", "Transform4::inverse",
     "Transform4::mul", "Transform4::set_translation"}

\* C21: every Transform4 that the constructors, inverse, set_translation and
\* the operators produce has the bottom row (0, 0, 0, 1): indexing (3, 0),
\* (3, 1), (3, 2) yields 0 and (3, 3) yields 1.
C21_BottomRowAffine ==
    pc = "done" /\ op \in Transform4Ops
        => /\ Transform4Index(out, 3, 0) = 0
           /\ Transform4Index(out, 3, 1) = 0
           /\ Transform4Index(out, 3, 2) = 0
           /\ Transform4Index(out, 3, 3) = 1

\* C22: l.transform(h) has the direction (linear block of h) * direction and
\* the moment adj * moment + translation(h) x (transformed direction), adj
\* being the matrix with the columns h1 x h2, h2 x h0, h0 x h1 of the columns
\* h0, h1, h2 of the linear block; transform_mut leaves the line equal to it.
C22_LineTransform ==
    Done("Line::transform")
        => LET l == args[1]
               h == args[2]
               col(j) == [x |-> LinearGrid(h)[0][j], y |-> LinearGrid(h)[1][j],
                          z |-> LinearGrid(h)[2][j]]
               v1 == RefCross(col(1), col(2))
               v2 == RefCross(col(2), col(0))
               v3 == RefCross(col(0), col(1))
               t == [x |-> TranslationOf(h)[0], y |-> TranslationOf(h)[1],
                     z |-> TranslationOf(h)[2]]
               d == RefMulCol(3, LinearGrid(h), Col3(l.direction))
               dv == [x |-> d[0], y |-> d[1], z |-> d[2]]
               m == l.moment
               am == [x |-> v1.x * m.x + v2.x * m.y + v3.x * m.z,
                      y |-> v1.y * m.x + v2.y * m.y + v3.y * m.z,
                      z |-> v1.z * m.x + v2.z * m.y + v3.z * m.z]
               c == RefCross(t, dv)
               expected == [direction |-> dv,
                            moment |-> [x |-> am.x + c.x, y |-> am.y + c.y, z |-> am.z + c.z]]
           IN  /\ out.ret = expected
               /\ out.self = expected

\* the units i, j, k and 1 over Den, and their products over Den * Den
UnitI == QuarternionNew(Den, 0, 0, 0)
UnitJ == QuarternionNew(0, Den, 0, 0)
UnitK == QuarternionNew(0, 0, Den, 0)
UnitOne == QuarternionNew(0, 0, 0, Den)
ScaledUnit(q, s) == QuarternionNew(s * Den * q.x, s * Den * q.y, s * Den * q.z, s * Den * q.w)

\* C23: q1 * q2 is the Hamilton product, with the vector part
\* w1*b2 + w2*b1 + b1 x b2 and the scalar part w1*w2 - b1.b2; so i*j = k,
\* j*k = i, k*i = j, i*i = -1 and j*i = -k (it is not commutative), and the
\* product is associative.
C23_HamiltonProduct ==
    Done("Quarternion::mul")
        => LET q1 == args[1]
               q2 == args[2]
               b1 == [x |-> q1.x, y |-> q1.y, z |-> q1.z]
               b2 == [x |-> q2.x, y |-> q2.y, z |-> q2.z]
               c == RefCross(b1, b2)
           IN  /\ out.x = q1.w * b2.x + q2.w * b1.x + c.x
               /\ out.y = q1.w * b2.y + q2.w * b1.y + c.y
               /\ out.z = q1.w * b2.z + q2.w * b1.z + c.z
               /\ out.w = q1.w * q2.w - (b1.x * b2.x + b1.y * b2.y + b1.z * b2.z)
               /\ q1 = UnitI /\ q2 = UnitJ => out = ScaledUnit(UnitK, 1)
               /\ q1 = UnitJ /\ q2 = UnitK => out = ScaledUnit(UnitI, 1)
               /\ q1 = UnitK /\ q2 = UnitI => out = ScaledUnit(UnitJ, 1)
               /\ q1 = UnitI /\ q2 = UnitI => out = ScaledUnit(UnitOne, 0 - 1)
               /\ q1 = UnitJ /\ q2 = UnitI => out = ScaledUnit(UnitK, 0 - 1)
               /\ \A q3 \in {UnitI, UnitJ, UnitK, UnitOne} :
                    QuarternionMul(out, q3) = QuarternionMul(q1, QuarternionMul(q2, q3))

\* j * i has been computed and is -k, where i * j is k
C23_Witness ==
    /\ Done("Quarternion::mul")
    /\ args = <<UnitJ, UnitI>>
    /\ out = ScaledUnit(UnitK, 0 - 1)
    /\ out # QuarternionMul(UnitI, UnitJ)

\* C24: a.cross(b) is the cross product (a.y*b.z - a.z*b.y, a.z*b.x - a.x*b.z,
\* a.x*b.y - a.y*b.x); it is anticommutative and orthogonal to both operands.
C24_CrossProduct ==
    Done("Vector3::cross")
        => LET a == args[1]
               b == args[2]
               ba == Vector3Cross(b, a)
           IN  /\ out = RefCross(a, b)
               /\ out = Vector3New(0 - ba.x, 0 - ba.y, 0 - ba.z)
               /\ Vector3Dot(a, out) = 0
               /\ Vector3Dot(b, out) = 0

\* C25: for Matrix2, Matrix3, Matrix4, Transform4 and Quarternion, after a *= b
\* the value of a is the value the pure a * b returns for the original a.
C25_MulAssignIsMul ==
    /\ Done("Matrix2::mul_assign") => out = Matrix2Mul(args[1], args[2])
    /\ Done("Matrix3::mul_assign") => out = Matrix3Mul(args[1], args[2])
    /\ Done("Matrix4::mul_assign") => out = Matrix4Mul(args[1], args[2])
    /\ Done("Transform4::mul_assign") => out = Transform4Mul(args[1], args[2])
    /\ Done("Quarternion::mul_assign") => out = QuarternionMul(args[1], args[2])

\* C26: for every Matrix4 M and non-zero scalar s, M / s has the entry
\* M(i, j) / s at every (i, j), it is the matrix that M /= s leaves in M, and
\* (M * s) / s == M when the arithmetic is exact.
C26_DivIsElementWise ==
    Done("Matrix4::div")
        => LET m == args[1]
               s == args[2]
               ms == args[3]
           IN  /\ \A i \in 0..3, j \in 0..3 :
                    Matrix4Index(out.div, i, j) * s = Matrix4Index(ms, i, j)
               /\ out.div = out.div_assign
               /\ out.div = m

\* C27: Matrix2::make_rotation(a) is [[cos a, -sin a], [sin a, cos a]]: its
\* determinant is 1 for every angle, and for a = 0 (cos = 1, sin = 0) it is
\* Matrix2::identity().
C27_MakeRotation ==
    Done("Matrix2::make_rotation") /\ Cos(args) * Cos(args) + Sin(args) * Sin(args) = 1
        => /\ Grid2(out) = Grid2(Matrix2New(Cos(args), 0 - Sin(args), Sin(args), Cos(args)))
           /\ Matrix2Determinant(out) = 1
           /\ Cos(args) = 1 /\ Sin(args) = 0 => out = Matrix2Identity

\* C28: when the determinant (v1.v2)^2 - |v1|^2 |v2|^2 is zero,
\* line_line_distance takes the parallel-line formula and not the branch that
\* divides by the determinant: for parallel directions the result is the
\* finite value |(p2 - p1) x v1| / |v1|.
C28_ParallelFallback ==
    Done("line_line_distance")
        => LET p1 == args[1]
               v1 == args[2]
               p2 == args[3]
               v2 == args[4]
               v1v2 == Vector3Dot(v1, v2)
               det == v1v2 * v1v2 - Vector3Dot(v1, v1) * Vector3Dot(v2, v2)
               a == RefCross(Point3Sub(p2, p1), v1)
           IN  det = 0
                 => /\ out.branch = "parallel"
                    /\ Vector3Dot(v1, v1) # 0
                         => /\ IsFinite(out.value)
                            /\ out.value.val * out.value.val * Vector3Dot(v1, v1)
                                 = Vector3Dot(a, a)

\* C29: whenever three_planes_intersect reports an intersection, the point p
\* it produces is (n3 x n2 * f1.w + n1 x n3 * f2.w - (n1 x n2) * f3.w) / det,
\* with ni = (fi.x, fi.y, fi.z) and det = (n1 x n2) . n3, and p lies on the
\* three planes: fi.point_dot(p) == 0 for i = 1, 2, 3.
C29_ThreePlanesPoint ==
    Done("three_planes_intersect") /\ out.ret
        => LET f1 == args[1]
               f2 == args[2]
               f3 == args[3]
               n1 == RefNormal(f1)
               n2 == RefNormal(f2)
               n3 == RefNormal(f3)
               n1xn2 == RefCross(n1, n2)
               det == Vector3Dot(n1xn2, n3)
               num == Vector3Sub(Vector3Add(Vector3MulScalar(RefCross(n3, n2), f1.w),
                                            Vector3MulScalar(RefCross(n1, n3), f2.w)),
                                 Vector3MulScalar(n1xn2, f3.w))
               p == out.p
           IN  /\ IsFinite(p.x) /\ IsFinite(p.y) /\ IsFinite(p.z)
               /\ p.x.val * det = num.x /\ p.y.val * det = num.y /\ p.z.val * det = num.z
               /\ \A f \in {f1, f2, f3} :
                    PlanePointDot(f, Point3New(p.x.val, p.y.val, p.z.val)) = 0

\* C30: for every Plane f, every Transform4 h built by Transform4::new and
\* every Point3 p, (f * h).point_dot(p) == f.point_dot(h * p).
C30_PlaneTransformPoint ==
    Done("Plane::mul_transform4")
        => \A p \in Vec3s :
             PlanePointDot(out, p) = PlanePointDot(args[1], Transform4MulPoint3(args[2], p))

\* The plane (1, 2, 3, 1) times the translation by (1, 2, 3) is (1, 2, 3, 15),
\* whose value at the origin is that of the plane at the point (1, 2, 3).
C30_Witness ==
    /\ Done("Plane::mul_transform4")
    /\ args[1] = PlaneNew(1, 2, 3, 1)
    /\ args[2] = Transform4MakeTranslation(Vector3New(1, 2, 3))
    /\ out = PlaneNew(1, 2, 3, 15)
    /\ PlanePointDot(args[1], Transform4MulPoint3(args[2], Point3New(0, 0, 0))) = 15

====
